---- MODULE Spec2Model ----
(***************************************************************************)
(* Message-lane endpoints of bridge-runtime-common (messages.rs).          *)
(*                                                                         *)
(* The generic code of `source` and `target` is instantiated with the      *)
(* bridge of the crate's own test module (OnThisChainBridge, ThisChain,    *)
(* BridgedChain, TestMessageProofParser).  Five specifications share the   *)
(* variables:                                                              *)
(*   Spec       the outbound acceptor's pure entry points, applied to      *)
(*              inputs drawn in Init (verify_message, verify_chain_message,*)
(*              estimate_message_dispatch_and_delivery_fee), and the       *)
(*              numerical functions transaction_payment,                   *)
(*              maximal_incoming_message_size, the Rialto runtime's        *)
(*              bridged_balance_to_this_balance and verify_message of its  *)
(*              TargetHeaderChain, and the batch size of the Millau ->     *)
(*              Rialto relay;                                              *)
(*   SpecLane   one outbound lane under sends and delivery confirmations;  *)
(*   SpecProof  verify_messages_proof, verify_messages_delivery_proof and  *)
(*              the relay's make_messages_delivery_transaction applied to  *)
(*              proofs drawn in Init;                                      *)
(*   SpecDispatch  FromBridgedChainMessageDispatch::dispatch applied to    *)
(*              messages, relayers and balances drawn in Init;             *)
(*   SpecCodec  the message payload encoded on the source and decoded on   *)
(*              the target chain, and derive_account_id of bp-runtime.     *)
(*                                                                         *)
(* Widths.  TLC's integers are 32-bit signed, so the 32-bit balance of the *)
(* test bridge is kept at 24 bits (BalanceMax) and the 64-bit nonce and    *)
(* the 32-bit messages_count at NonceMax and CountMax; every checked or    *)
(* saturating operation is taken against these maxima.                     *)
(***************************************************************************)
EXTENDS Integers, Sequences, FiniteSets, TLC

VARIABLES
    pc,                  \* "call": inputs drawn, entry point not yet run; "done": it returned
    op,                  \* the entry point the inputs are for
    arg,                 \* the inputs of the call
    res,                 \* what the call returned (NoResult while pc = "call")
    lane_outbound_data,  \* OutboundLaneData of the lane in storage (SpecLane)
    balances             \* free balance of every account of this chain (SpecDispatch)

vars == <<pc, op, arg, res, lane_outbound_data, balances>>

----------------------------------------------------------------------------
(* Bounds of the model *)

\* Balance::MAX of the balance type (u32 in the test bridge, kept at 24 bits)
BalanceMax == 16777215
\* MessageNonce::MAX (u64::MAX), scaled
NonceMax == 4
\* u32::MAX of messages_count, scaled (narrower than the nonce)
CountMax == 3
\* sends after which SpecLane stops generating messages
MaxGenerated == 35
\* bp_millau::Balance::MAX (u64 where bp_rialto::Balance is u128), scaled
MillauBalanceMax == 65535
\* largest of the small maximal extrinsic sizes drawn
MaxExtrinsicSize == 40

----------------------------------------------------------------------------
(* Option and Result values *)

None == [some |-> FALSE, v |-> 0]
Some(x) == [some |-> TRUE, v |-> x]

NoResult == [ok |-> FALSE, err |-> "not returned", val |-> 0]
Ok(x) == [ok |-> TRUE, err |-> "", val |-> x]
Err(e) == [ok |-> FALSE, err |-> e, val |-> 0]

----------------------------------------------------------------------------
(* Accounts of this chain *)

\* the account derived for the root of the bridged chain
DerivedRootAccount == "derived_root"
\* accounts of this chain that hold a key
TargetAccounts == {"alice", "bob"}

Accounts == {DerivedRootAccount} \cup TargetAccounts

\* no balance is held where dispatch is not modelled
NoBalances == [a \in Accounts |-> 0]

----------------------------------------------------------------------------
(* Checked arithmetic of the Balance type *)

checked_add(a, b) == IF a > BalanceMax - b THEN None ELSE Some(a + b)

checked_mul(a, b) == IF b # 0 /\ a > BalanceMax \div b THEN None ELSE Some(a * b)

checked_div(a, b) == IF b = 0 THEN None ELSE Some(a \div b)

saturating_sub(a, b) == IF a < b THEN 0 ELSE a - b

saturating_add(a, b) == IF a > BalanceMax - b THEN BalanceMax ELSE a + b

saturating_mul(a, b) == IF b # 0 /\ a > BalanceMax \div b THEN BalanceMax ELSE a * b

\* FixedU128::saturating_mul_int(n) of the fixed-point number multiplier.n / multiplier.d:
\* the product rounded down, saturating at the maximum `max` of the type of n
saturating_mul_int_of(max, multiplier, value) ==
    IF multiplier.n # 0 /\ value > ((max + 1) * multiplier.d - 1) \div multiplier.n
    THEN max
    ELSE (multiplier.n * value) \div multiplier.d

\* saturating_mul_int of a Balance of this chain
saturating_mul_int(multiplier, value) == saturating_mul_int_of(BalanceMax, multiplier, value)

----------------------------------------------------------------------------
(* The test bridge: constants of the tests module *)

DELIVERY_TRANSACTION_WEIGHT == 100
DELIVERY_CONFIRMATION_TRANSACTION_WEIGHT == 100
THIS_CHAIN_WEIGHT_TO_BALANCE_RATE == 2
BRIDGED_CHAIN_WEIGHT_TO_BALANCE_RATE == 4
BRIDGED_CHAIN_TO_THIS_CHAIN_BALANCE_RATE == 6
BRIDGED_CHAIN_MAX_EXTRINSIC_WEIGHT == 2048
BRIDGED_CHAIN_MAX_EXTRINSIC_SIZE == 1024
MAXIMAL_PENDING_MESSAGES_AT_TEST_LANE == 32
\* OnThisChainBridge::RELAYER_FEE_PERCENT
RELAYER_FEE_PERCENT == 10

\* b"test" and b"dsbl"
TEST_LANE_ID == <<116, 101, 115, 116>>
DSBL_LANE_ID == <<100, 115, 98, 108>>

OUTBOUND_LANE_DISABLED == "The outbound message lane is disabled."
TOO_MANY_PENDING_MESSAGES == "Too many pending messages at the lane."
BAD_ORIGIN == "Unable to match the source origin to expected target origin."
TOO_LOW_FEE == "Provided fee is below minimal threshold required by the lane."
FEE_OVERFLOW == "Overflow when computing minimal required message delivery and dispatch fee"
INCORRECT_WEIGHT == "Incorrect message weight declared"
TOO_LARGE_MESSAGE == "The message is too large to be sent over the lane"

----------------------------------------------------------------------------
(* The test bridge: hooks of ThisChain, BridgedChain and OnThisChainBridge *)

is_outbound_lane_enabled_always(lane) == TRUE

\* ThisChain::is_outbound_lane_enabled
is_outbound_lane_enabled(lane) == lane = TEST_LANE_ID

\* ThisChain::maximal_pending_messages_at_outbound_lane
maximal_pending_messages_at_outbound_lane == MAXIMAL_PENDING_MESSAGES_AT_TEST_LANE

\* ThisChain::estimate_delivery_confirmation_transaction
estimate_delivery_confirmation_transaction ==
    [dispatch_weight |-> DELIVERY_CONFIRMATION_TRANSACTION_WEIGHT, size |-> 0]

\* ThisChain::transaction_payment (unchecked u32 product: the inputs drawn keep it in range)
ThisChain_transaction_payment(transaction) ==
    transaction.dispatch_weight * THIS_CHAIN_WEIGHT_TO_BALANCE_RATE

\* BridgedChain::maximal_extrinsic_size
maximal_extrinsic_size == BRIDGED_CHAIN_MAX_EXTRINSIC_SIZE

\* BridgedChain::message_weight_limits: begin..=end
message_weight_limits(message_payload) ==
    [begin |-> IF Len(message_payload) < BRIDGED_CHAIN_MAX_EXTRINSIC_WEIGHT
               THEN Len(message_payload) ELSE BRIDGED_CHAIN_MAX_EXTRINSIC_WEIGHT,
     end |-> BRIDGED_CHAIN_MAX_EXTRINSIC_WEIGHT]

\* BridgedChain::estimate_delivery_transaction (payload and flag are ignored by the mock)
estimate_delivery_transaction(message_payload, include_pay_dispatch_fee_cost, message_dispatch_weight) ==
    [dispatch_weight |-> DELIVERY_TRANSACTION_WEIGHT + message_dispatch_weight, size |-> 0]

\* BridgedChain::transaction_payment (unchecked u32 product)
BridgedChain_transaction_payment(transaction) ==
    transaction.dispatch_weight * BRIDGED_CHAIN_WEIGHT_TO_BALANCE_RATE

\* OnThisChainBridge::bridged_balance_to_this_balance (unchecked u32 product)
bridged_balance_to_this_balance(bridged_balance) ==
    bridged_balance * BRIDGED_CHAIN_TO_THIS_CHAIN_BALANCE_RATE

----------------------------------------------------------------------------
(* pallet_bridge_dispatch::verify_message_origin, as the acceptor's contract *)
(* states it: SourceRoot needs the root origin, SourceAccount(a) needs the  *)
(* signed origin a.                                                          *)

verify_message_origin(submitter, payload) ==
    IF payload.origin.kind = "SourceRoot"
    THEN (IF submitter.kind = "Root" THEN Ok(0) ELSE Err("BadOrigin"))
    ELSE (IF submitter.kind = "Signed" /\ submitter.id = payload.origin.id
          THEN Ok(0) ELSE Err("BadOrigin"))

----------------------------------------------------------------------------
(* mod target: sizes *)

maximal_incoming_message_size_multiplying_first(maximal_extrinsic_size_) ==
    (maximal_extrinsic_size_ * 2) \div 3

maximal_incoming_message_size(maximal_extrinsic_size_) == (maximal_extrinsic_size_ \div 3) * 2

----------------------------------------------------------------------------
(* mod source *)

maximal_message_size == maximal_incoming_message_size(maximal_extrinsic_size)

call_is_too_large_off_by_one(call) == Len(call) > maximal_message_size + 1

\* verify_chain_message: `payload.call.len() > maximal_message_size::<B>()`
call_is_too_large(call) == Len(call) > maximal_message_size

\* verify_chain_message: `!weight_limits.contains(&payload.weight.into())`
weight_is_out_of_limits(payload) ==
    LET weight_limits == message_weight_limits(payload.call)
    IN ~(weight_limits.begin <= payload.weight /\ payload.weight <= weight_limits.end)

verify_chain_message(payload) ==
    IF weight_is_out_of_limits(payload) THEN Err(INCORRECT_WEIGHT)
    ELSE IF call_is_too_large(payload.call) THEN Err(TOO_LARGE_MESSAGE)
    ELSE Ok(0)

\* mod target: maximal dispatch weight of the message we're able to receive
maximal_incoming_message_dispatch_weight(maximal_extrinsic_weight) ==
    maximal_extrinsic_weight \div 2

\* Rialto runtime, BridgedChainWithMessages for Millau: `0..=upper_limit`
\* (bp_millau::max_extrinsic_weight() is a parameter of the model)
Millau_message_weight_limits(max_extrinsic_weight, message_payload) ==
    [begin |-> 0, end |-> maximal_incoming_message_dispatch_weight(max_extrinsic_weight)]

\* Rialto runtime, TargetHeaderChain::verify_message for Millau:
\* verify_chain_message::<WithMillauMessageBridge>(payload)
Millau_verify_message(max_extrinsic_weight, max_extrinsic_size, payload) ==
    LET weight_limits == Millau_message_weight_limits(max_extrinsic_weight, payload.call)
    IN IF ~(weight_limits.begin <= payload.weight /\ payload.weight <= weight_limits.end)
       THEN Err(INCORRECT_WEIGHT)
       ELSE IF Len(payload.call) > maximal_incoming_message_size(max_extrinsic_size)
       THEN Err(TOO_LARGE_MESSAGE)
       ELSE Ok(0)

\* the same with the interest divided before it is multiplied
estimate_fee_div_first(payload, relayer_fee_percent) ==
    LET pay_dispatch_fee_at_target_chain == payload.dispatch_fee_payment = "AtTargetChain"
        delivery_transaction == estimate_delivery_transaction(payload,
            pay_dispatch_fee_at_target_chain,
            IF pay_dispatch_fee_at_target_chain THEN 0 ELSE payload.weight)
        minimal_fee == checked_add(
            bridged_balance_to_this_balance(BridgedChain_transaction_payment(delivery_transaction)),
            ThisChain_transaction_payment(estimate_delivery_confirmation_transaction))
        total == IF minimal_fee.some
                 THEN checked_add(minimal_fee.v, (minimal_fee.v \div 100) * relayer_fee_percent)
                 ELSE None
    IN IF total.some THEN Ok(total.v) ELSE Err(FEE_OVERFLOW)

\* the same with wrapping instead of checked arithmetic
estimate_fee_wrapping(payload, relayer_fee_percent) ==
    LET pay_dispatch_fee_at_target_chain == payload.dispatch_fee_payment = "AtTargetChain"
        delivery_transaction == estimate_delivery_transaction(payload,
            pay_dispatch_fee_at_target_chain,
            IF pay_dispatch_fee_at_target_chain THEN 0 ELSE payload.weight)
        fee == (bridged_balance_to_this_balance(BridgedChain_transaction_payment(delivery_transaction))
                + ThisChain_transaction_payment(estimate_delivery_confirmation_transaction))
               % (BalanceMax + 1)
        interest == ((fee * relayer_fee_percent) % (BalanceMax + 1)) \div 100
    IN Ok((fee + interest) % (BalanceMax + 1))

estimate_fee_always_prepaid(payload, relayer_fee_percent) ==
    LET delivery_transaction == estimate_delivery_transaction(payload, FALSE, payload.weight)
        delivery_transaction_fee == BridgedChain_transaction_payment(delivery_transaction)
        confirmation_transaction_fee ==
            ThisChain_transaction_payment(estimate_delivery_confirmation_transaction)
        minimal_fee == checked_add(bridged_balance_to_this_balance(delivery_transaction_fee),
                                   confirmation_transaction_fee)
        interest_mul == IF minimal_fee.some THEN checked_mul(minimal_fee.v, relayer_fee_percent) ELSE None
        interest == IF interest_mul.some THEN checked_div(interest_mul.v, 100) ELSE None
        total == IF interest.some THEN checked_add(minimal_fee.v, interest.v) ELSE None
    IN IF total.some THEN Ok(total.v) ELSE Err(FEE_OVERFLOW)

estimate_message_dispatch_and_delivery_fee(payload, relayer_fee_percent) ==
    LET pay_dispatch_fee_at_target_chain == payload.dispatch_fee_payment = "AtTargetChain"
        delivery_transaction == estimate_delivery_transaction(payload,
            pay_dispatch_fee_at_target_chain,
            IF pay_dispatch_fee_at_target_chain THEN 0 ELSE payload.weight)
        delivery_transaction_fee == BridgedChain_transaction_payment(delivery_transaction)
        confirmation_transaction == estimate_delivery_confirmation_transaction
        confirmation_transaction_fee == ThisChain_transaction_payment(confirmation_transaction)
        minimal_fee == checked_add(bridged_balance_to_this_balance(delivery_transaction_fee),
                                   confirmation_transaction_fee)
        interest_mul == IF minimal_fee.some THEN checked_mul(minimal_fee.v, relayer_fee_percent) ELSE None
        interest == IF interest_mul.some THEN checked_div(interest_mul.v, 100) ELSE None
        total == IF interest.some THEN checked_add(minimal_fee.v, interest.v) ELSE None
    IN IF total.some THEN Ok(total.v) ELSE Err(FEE_OVERFLOW)

\* verify_message: pending messages of the lane
pending_messages(outbound_data) ==
    saturating_sub(outbound_data.latest_generated_nonce, outbound_data.latest_received_nonce)

too_many_pending_messages_at_limit(outbound_data) ==
    pending_messages(outbound_data) >= maximal_pending_messages_at_outbound_lane

\* verify_message: `pending_messages > max_pending_messages`
too_many_pending_messages(outbound_data) ==
    pending_messages(outbound_data) > maximal_pending_messages_at_outbound_lane

origin_is_rejected_never(submitter, payload) == FALSE

\* verify_message: `verify_message_origin(submitter, payload).map_err(|_| BAD_ORIGIN)?`
origin_is_rejected(submitter, payload) == ~verify_message_origin(submitter, payload).ok

fee_is_too_low_inverted(delivery_and_dispatch_fee, minimal_fee_in_this_tokens) ==
    delivery_and_dispatch_fee > minimal_fee_in_this_tokens

\* verify_message: `*delivery_and_dispatch_fee < minimal_fee_in_this_tokens`
fee_is_too_low(delivery_and_dispatch_fee, minimal_fee_in_this_tokens) ==
    delivery_and_dispatch_fee < minimal_fee_in_this_tokens

\* FromThisChainMessageVerifier::verify_message
\* the same checks with the origin looked at before the lane and its capacity
verify_message_checking_origin_first(submitter, delivery_and_dispatch_fee, lane, outbound_data, payload) ==
    IF origin_is_rejected(submitter, payload) THEN Err(BAD_ORIGIN)
    ELSE IF ~is_outbound_lane_enabled(lane) THEN Err(OUTBOUND_LANE_DISABLED)
    ELSE IF too_many_pending_messages(outbound_data) THEN Err(TOO_MANY_PENDING_MESSAGES)
    ELSE LET minimal_fee_in_this_tokens ==
                 estimate_message_dispatch_and_delivery_fee(payload, RELAYER_FEE_PERCENT)
         IN IF ~minimal_fee_in_this_tokens.ok THEN minimal_fee_in_this_tokens
            ELSE IF fee_is_too_low(delivery_and_dispatch_fee, minimal_fee_in_this_tokens.val)
                 THEN Err(TOO_LOW_FEE)
                 ELSE Ok(0)

verify_message(submitter, delivery_and_dispatch_fee, lane, outbound_data, payload) ==
    IF ~is_outbound_lane_enabled(lane) THEN Err(OUTBOUND_LANE_DISABLED)
    ELSE IF too_many_pending_messages(outbound_data) THEN Err(TOO_MANY_PENDING_MESSAGES)
    ELSE IF origin_is_rejected(submitter, payload) THEN Err(BAD_ORIGIN)
    ELSE LET minimal_fee_in_this_tokens ==
                 estimate_message_dispatch_and_delivery_fee(payload, RELAYER_FEE_PERCENT)
         IN IF ~minimal_fee_in_this_tokens.ok THEN minimal_fee_in_this_tokens
            ELSE IF fee_is_too_low(delivery_and_dispatch_fee, minimal_fee_in_this_tokens.val)
                 THEN Err(TOO_LOW_FEE)
                 ELSE Ok(0)

----------------------------------------------------------------------------
(* transaction_payment *)

\* the closure weight_to_fee: `rate` tokens for a unit of weight
weight_to_fee(rate, weight) == saturating_mul(rate, weight)

\* the weight fee added without the fee multiplier
transaction_payment_unadjusted(base_extrinsic_weight, per_byte_fee, multiplier, rate, transaction) ==
    LET base_fee == weight_to_fee(rate, base_extrinsic_weight)
        len_fee == saturating_mul(per_byte_fee, transaction.size)
        unadjusted_weight_fee == weight_to_fee(rate, transaction.dispatch_weight)
    IN saturating_add(saturating_add(base_fee, len_fee), unadjusted_weight_fee)

transaction_payment(base_extrinsic_weight, per_byte_fee, multiplier, rate, transaction) ==
    LET base_fee == weight_to_fee(rate, base_extrinsic_weight)
        len_fee == saturating_mul(per_byte_fee, transaction.size)
        unadjusted_weight_fee == weight_to_fee(rate, transaction.dispatch_weight)
        adjusted_weight_fee == saturating_mul_int(multiplier, unadjusted_weight_fee)
    IN saturating_add(saturating_add(base_fee, len_fee), adjusted_weight_fee)

----------------------------------------------------------------------------
(* WithMillauMessageBridge of the Rialto runtime *)

\* INITIAL_MILLAU_TO_RIALTO_CONVERSION_RATE: FixedU128::from_inner(FixedU128::DIV)
INITIAL_MILLAU_TO_RIALTO_CONVERSION_RATE == [n |-> 1, d |-> 1]

\* bridged_balance_to_this_balance: saturating_mul_int multiplies in the type of its
\* argument, bp_millau::Balance; try_from converts to bp_rialto::Balance
WithMillauMessageBridge_bridged_balance_to_this_balance(conversion_rate, bridged_balance) ==
    LET product == saturating_mul_int_of(MillauBalanceMax, conversion_rate, bridged_balance)
    IN IF product > BalanceMax THEN BalanceMax ELSE product

----------------------------------------------------------------------------
(* Millau -> Rialto messages relay: run *)

\* max_messages_size_in_single_batch of run, bp_rialto::max_extrinsic_size() given
max_messages_size_in_single_batch(max_extrinsic_size) == max_extrinsic_size \div 3

----------------------------------------------------------------------------
(* Inputs of Spec *)

\* OutboundLaneData::default()
DefaultOutboundLaneData ==
    [oldest_unpruned_nonce |-> 1, latest_received_nonce |-> 0, latest_generated_nonce |-> 0]

\* largest declared weight for which the unchecked products of the mock hooks stay
\* inside the balance type
MaxHookWeight ==
    (BalanceMax \div (BRIDGED_CHAIN_WEIGHT_TO_BALANCE_RATE * BRIDGED_CHAIN_TO_THIS_CHAIN_BALANCE_RATE))
        - DELIVERY_TRANSACTION_WEIGHT

\* regular_outbound_message_payload()
RegularPayload ==
    [spec_version |-> 1, weight |-> 100, origin |-> [kind |-> "SourceRoot", id |-> 0],
     dispatch_fee_payment |-> "AtSourceChain", call |-> <<42>>]

Senders ==
    {[kind |-> "Root", id |-> 0], [kind |-> "None", id |-> 0],
     [kind |-> "Signed", id |-> 0], [kind |-> "Signed", id |-> 1]}

Origins == {[kind |-> "SourceRoot", id |-> 0], [kind |-> "SourceAccount", id |-> 1]}

\* 100 is the weight of regular_outbound_message_payload(), 5 a weight whose fee is no
\* multiple of 100; MaxHookWeight overflows the
\* first checked_add, MaxHookWeight - 10 the last one (at 1 percent), half of it the
\* checked_mul
FeeWeights == {0, 5, 100, MaxHookWeight \div 2, MaxHookWeight - 10, MaxHookWeight}

FeePayloads ==
    [spec_version : {1}, weight : FeeWeights, origin : Origins,
     dispatch_fee_payment : {"AtSourceChain", "AtTargetChain"}, call : {<<42>>}]

\* 5500 is the minimal fee of the regular payload, 2860 of the same paid at target
Fees == {1, 2859, 2860, 5499, 5500, 1000000, BalanceMax}

Lanes == {TEST_LANE_ID, DSBL_LANE_ID}

\* (latest_received_nonce, latest_generated_nonce); the last pair is not a state of a
\* lane and is there for the saturating subtraction
LaneNonces ==
    {<<0, 0>>, <<0, 1>>, <<0, 31>>, <<0, 32>>, <<0, 33>>, <<100, 132>>, <<100, 133>>,
     <<100, 134>>, <<7, 0>>}

LaneStates ==
    {[oldest_unpruned_nonce |-> 1, latest_received_nonce |-> n[1], latest_generated_nonce |-> n[2]] :
        n \in LaneNonces}

Zeros(n) == [i \in 1..n |-> 0]

Calls == {<<42>>, <<1, 2, 3, 4, 5, 6>>, Zeros(maximal_message_size - 1),
          Zeros(maximal_message_size), Zeros(maximal_message_size + 1)}

ChainWeights ==
    {0, 1, 5, 6, 100, maximal_message_size - 1, maximal_message_size, maximal_message_size + 1,
     BRIDGED_CHAIN_MAX_EXTRINSIC_WEIGHT - 1, BRIDGED_CHAIN_MAX_EXTRINSIC_WEIGHT,
     BRIDGED_CHAIN_MAX_EXTRINSIC_WEIGHT + 1}

ChainPayloads ==
    [spec_version : {1}, weight : ChainWeights, origin : {[kind |-> "SourceRoot", id |-> 0]},
     dispatch_fee_payment : {"AtSourceChain"}, call : Calls]

Percents == {0, 1, RELAYER_FEE_PERCENT, 20}

VerifyMessageArgs ==
    [submitter : Senders, delivery_and_dispatch_fee : Fees, lane : Lanes,
     lane_outbound_data : LaneStates, payload : FeePayloads]

EstimateArgs == [payload : FeePayloads, relayer_fee_percent : Percents]

VerifyChainMessageArgs == [payload : ChainPayloads]

\* NextFeeMultiplier and conversion rates: 0, 1/2, 1, 3/2, 3 and 100
\* bp_millau::max_extrinsic_weight() and bp_millau::max_extrinsic_size()
MillauExtrinsicWeights == {200, BRIDGED_CHAIN_MAX_EXTRINSIC_WEIGHT, 2 * BRIDGED_CHAIN_MAX_EXTRINSIC_WEIGHT}
MillauExtrinsicSizes == {9, BRIDGED_CHAIN_MAX_EXTRINSIC_SIZE}

MillauVerifyMessageArgs ==
    [payload : ChainPayloads, max_extrinsic_weight : MillauExtrinsicWeights,
     max_extrinsic_size : MillauExtrinsicSizes]

FixedU128s ==
    {[n |-> 0, d |-> 1], [n |-> 1, d |-> 2], [n |-> 1, d |-> 1], [n |-> 3, d |-> 2],
     [n |-> 3, d |-> 1], [n |-> 100, d |-> 1]}

\* the tests' transaction (size 50, dispatch weight 777, base weight 100, 10 per byte)
\* and values that saturate the products and the sums
TransactionPaymentArgs ==
    [base_extrinsic_weight : {0, 100, BalanceMax}, per_byte_fee : {0, 10, 4096},
     multiplier : FixedU128s, rate : {1, 2},
     transaction : [size : {0, 50, 8192}, dispatch_weight : {0, 777, 1048576, BalanceMax}]]

BridgedBalanceArgs ==
    [conversion_rate : FixedU128s,
     bridged_balance : {0, 1, 7, 1000, 40000, MillauBalanceMax}]

\* maximal extrinsic sizes: the small ones and the one of the test bridge
ExtrinsicSizes == 0..MaxExtrinsicSize \cup {BRIDGED_CHAIN_MAX_EXTRINSIC_SIZE}

----------------------------------------------------------------------------
(* Spec: the entry points of the outbound acceptor applied to drawn inputs *)

Init ==
    /\ pc = "call"
    /\ res = NoResult
    /\ lane_outbound_data = DefaultOutboundLaneData
    /\ balances = NoBalances
    /\ \/ op = "verify_message" /\ arg \in VerifyMessageArgs
       \/ op = "estimate_message_dispatch_and_delivery_fee" /\ arg \in EstimateArgs
       \/ op = "verify_chain_message" /\ arg \in VerifyChainMessageArgs
       \/ op = "transaction_payment" /\ arg \in TransactionPaymentArgs
       \/ op = "bridged_balance_to_this_balance" /\ arg \in BridgedBalanceArgs
       \/ op = "maximal_incoming_message_size" /\ arg \in [maximal_extrinsic_size : ExtrinsicSizes]
       \/ op = "run" /\ arg \in [max_extrinsic_size : ExtrinsicSizes]
       \/ op = "TargetHeaderChain::verify_message" /\ arg \in MillauVerifyMessageArgs

VerifyMessage ==
    /\ pc = "call" /\ op = "verify_message"
    /\ res' = verify_message(arg.submitter, arg.delivery_and_dispatch_fee, arg.lane,
                             arg.lane_outbound_data, arg.payload)
    /\ pc' = "done"
    /\ UNCHANGED <<op, arg, lane_outbound_data, balances>>

EstimateFee ==
    /\ pc = "call" /\ op = "estimate_message_dispatch_and_delivery_fee"
    /\ res' = estimate_message_dispatch_and_delivery_fee(arg.payload, arg.relayer_fee_percent)
    /\ pc' = "done"
    /\ UNCHANGED <<op, arg, lane_outbound_data, balances>>

VerifyChainMessage ==
    /\ pc = "call" /\ op = "verify_chain_message"
    /\ res' = verify_chain_message(arg.payload)
    /\ pc' = "done"
    /\ UNCHANGED <<op, arg, lane_outbound_data, balances>>

TransactionPayment ==
    /\ pc = "call" /\ op = "transaction_payment"
    /\ res' = Ok(transaction_payment(arg.base_extrinsic_weight, arg.per_byte_fee, arg.multiplier,
                                     arg.rate, arg.transaction))
    /\ pc' = "done"
    /\ UNCHANGED <<op, arg, lane_outbound_data, balances>>

BridgedBalanceToThisBalance ==
    /\ pc = "call" /\ op = "bridged_balance_to_this_balance"
    /\ res' = Ok(WithMillauMessageBridge_bridged_balance_to_this_balance(
                     arg.conversion_rate, arg.bridged_balance))
    /\ pc' = "done"
    /\ UNCHANGED <<op, arg, lane_outbound_data, balances>>

MaximalIncomingMessageSize ==
    /\ pc = "call" /\ op = "maximal_incoming_message_size"
    /\ res' = Ok(maximal_incoming_message_size(arg.maximal_extrinsic_size))
    /\ pc' = "done"
    /\ UNCHANGED <<op, arg, lane_outbound_data, balances>>

\* run of the Millau -> Rialto relay, up to the limits it gives the delivery loop
Run ==
    /\ pc = "call" /\ op = "run"
    /\ res' = Ok([max_messages_size_in_single_batch |->
                      max_messages_size_in_single_batch(arg.max_extrinsic_size)])
    /\ pc' = "done"
    /\ UNCHANGED <<op, arg, lane_outbound_data, balances>>

MillauVerifyMessage ==
    /\ pc = "call" /\ op = "TargetHeaderChain::verify_message"
    /\ res' = Millau_verify_message(arg.max_extrinsic_weight, arg.max_extrinsic_size, arg.payload)
    /\ pc' = "done"
    /\ UNCHANGED <<op, arg, lane_outbound_data, balances>>

Next ==
    \/ VerifyMessage
    \/ EstimateFee
    \/ VerifyChainMessage
    \/ TransactionPayment
    \/ BridgedBalanceToThisBalance
    \/ MaximalIncomingMessageSize
    \/ Run
    \/ MillauVerifyMessage

Spec == Init /\ [][Next]_vars

----------------------------------------------------------------------------
(* SpecLane: one outbound lane of the test bridge.  The messages pallet is  *)
(* modelled from the acceptor's and the confirmation verifier's contracts:   *)
(* an accepted send increments latest_generated_nonce, a confirmation        *)
(* advances latest_received_nonce up to latest_generated_nonce and prunes    *)
(* the confirmed entries.                                                    *)

LaneSenders == {[kind |-> "Root", id |-> 0], [kind |-> "Signed", id |-> 0]}

LaneFees == {1, 1000000}

InitLane ==
    /\ pc = "done"
    /\ op = "none"
    /\ arg = <<>>
    /\ res = NoResult
    /\ lane_outbound_data = DefaultOutboundLaneData
    /\ balances = NoBalances

\* send_message: verify_message guards the send
SendMessage ==
    \E submitter \in LaneSenders, fee \in LaneFees :
        /\ lane_outbound_data.latest_generated_nonce < MaxGenerated
        /\ op' = "send_message"
        /\ arg' = [submitter |-> submitter, delivery_and_dispatch_fee |-> fee,
                   lane |-> TEST_LANE_ID, lane_outbound_data |-> lane_outbound_data,
                   payload |-> RegularPayload]
        /\ res' = verify_message(submitter, fee, TEST_LANE_ID, lane_outbound_data, RegularPayload)
        /\ lane_outbound_data' =
               IF res'.ok
               THEN [lane_outbound_data EXCEPT !.latest_generated_nonce = @ + 1]
               ELSE lane_outbound_data
        /\ UNCHANGED <<pc, balances>>

\* the same with one nonce more than the lane has generated open to confirmation
ReceiveDeliveryConfirmation_beyond_generated ==
    \E nonce \in (lane_outbound_data.latest_received_nonce + 1)..(lane_outbound_data.latest_generated_nonce + 1) :
        /\ op' = "receive_messages_delivery_proof"
        /\ arg' = [latest_received_nonce |-> nonce]
        /\ res' = Ok(0)
        /\ lane_outbound_data' =
               [lane_outbound_data EXCEPT !.latest_received_nonce = nonce,
                                          !.oldest_unpruned_nonce = nonce + 1]
        /\ UNCHANGED <<pc, balances>>

\* receive_messages_delivery_proof: the target confirmed the nonces up to `nonce`
ReceiveDeliveryConfirmation ==
    \E nonce \in (lane_outbound_data.latest_received_nonce + 1)..lane_outbound_data.latest_generated_nonce :
        /\ op' = "receive_messages_delivery_proof"
        /\ arg' = [latest_received_nonce |-> nonce]
        /\ res' = Ok(0)
        /\ lane_outbound_data' =
               [lane_outbound_data EXCEPT !.latest_received_nonce = nonce,
                                          !.oldest_unpruned_nonce = nonce + 1]
        /\ UNCHANGED <<pc, balances>>

NextLane == SendMessage \/ ReceiveDeliveryConfirmation

SpecLane == InitLane /\ [][NextLane]_vars

----------------------------------------------------------------------------
(* SCALE decoding of the values read from a messages proof *)

RECURSIVE LittleEndian(_)
\* fixed-width integers are little-endian
LittleEndian(bytes) ==
    IF bytes = <<>> THEN 0 ELSE Head(bytes) + 256 * LittleEndian(Tail(bytes))

\* Compact<u32> length prefix: [some, v |-> length, rest |-> the input after it]; the
\* two-byte mode holds the lengths above 63 only.
\* Modes 2 and 3 hold lengths of 2^14 and more: no value drawn here is that long, so
\* the element bytes are missing from the input and the decoding fails.
DecodeCompactLength(input) ==
    IF Len(input) = 0 THEN [some |-> FALSE, v |-> 0, rest |-> <<>>]
    ELSE IF input[1] % 4 = 0
         THEN [some |-> TRUE, v |-> input[1] \div 4, rest |-> Tail(input)]
    ELSE IF input[1] % 4 = 1 /\ Len(input) >= 2 /\ (input[1] + 256 * input[2]) \div 4 > 63
         THEN [some |-> TRUE, v |-> (input[1] + 256 * input[2]) \div 4, rest |-> Tail(Tail(input))]
    ELSE [some |-> FALSE, v |-> 0, rest |-> <<>>]

\* MessageData<BridgedChainBalance>::decode: payload (Vec<u8>), then fee (u32); bytes
\* left over are not looked at
DecodeMessageData(raw) ==
    LET length == DecodeCompactLength(raw)
    IN IF ~length.some \/ Len(length.rest) < length.v + 4 THEN None
       ELSE Some([payload |-> SubSeq(length.rest, 1, length.v),
                  fee |-> LittleEndian(SubSeq(length.rest, length.v + 1, length.v + 4))])

\* OutboundLaneData::decode: three u64
DecodeOutboundLaneData(raw) ==
    IF Len(raw) < 24 THEN None
    ELSE Some([oldest_unpruned_nonce |-> LittleEndian(SubSeq(raw, 1, 8)),
               latest_received_nonce |-> LittleEndian(SubSeq(raw, 9, 16)),
               latest_generated_nonce |-> LittleEndian(SubSeq(raw, 17, 24))])

\* u64::encode of a small number
EncodeU64(n) == <<n, 0, 0, 0, 0, 0, 0, 0>>

\* TestMessageProofParser::read_raw_message: MessageData { payload: nonce.encode(), fee: 0 }
EncodedTestMessage(nonce) == <<8 * 4>> \o EncodeU64(nonce) \o <<0, 0, 0, 0>>

\* OutboundLaneData::encode
EncodeOutboundLaneData(data) ==
    EncodeU64(data.oldest_unpruned_nonce) \o EncodeU64(data.latest_received_nonce)
        \o EncodeU64(data.latest_generated_nonce)

RECURSIVE DecodeUnrewardedRelayers(_, _, _)
\* `count` entries of UnrewardedRelayer { relayer (u32 account of the test chain),
\* messages: DeliveredMessages { begin, end (u64), dispatch_results (bit vector: compact
\* number of bits, then the bytes that hold them) } }
DecodeUnrewardedRelayers(input, count, relayers) ==
    IF count = 0 THEN [some |-> TRUE, v |-> relayers, rest |-> input]
    ELSE IF Len(input) < 20 THEN [some |-> FALSE, v |-> <<>>, rest |-> <<>>]
    ELSE LET bits == DecodeCompactLength(SubSeq(input, 21, Len(input)))
             bytes == (bits.v + 7) \div 8
         IN IF ~bits.some \/ Len(bits.rest) < bytes THEN [some |-> FALSE, v |-> <<>>, rest |-> <<>>]
            ELSE DecodeUnrewardedRelayers(
                     SubSeq(bits.rest, bytes + 1, Len(bits.rest)), count - 1,
                     Append(relayers,
                            [relayer |-> LittleEndian(SubSeq(input, 1, 4)),
                             messages |-> [begin |-> LittleEndian(SubSeq(input, 5, 12)),
                                           end |-> LittleEndian(SubSeq(input, 13, 20)),
                                           dispatch_results |->
                                               [bits |-> bits.v,
                                                data |-> SubSeq(bits.rest, 1, bytes)]]]))

\* InboundLaneData::decode: relayers (VecDeque<UnrewardedRelayer>), then
\* last_confirmed_nonce (u64); bytes left over are not looked at
DecodeInboundLaneData(raw) ==
    LET length == DecodeCompactLength(raw)
        relayers == DecodeUnrewardedRelayers(length.rest, length.v, <<>>)
    IN IF ~length.some THEN None
       ELSE IF ~relayers.some \/ Len(relayers.rest) < 8 THEN None
       ELSE Some([relayers |-> relayers.v,
                  last_confirmed_nonce |-> LittleEndian(SubSeq(relayers.rest, 1, 8))])

\* InboundLaneData::encode of a lane state with no relayer or one relayer
EncodeInboundLaneData(data) ==
    (IF data.relayers = <<>> THEN <<0>>
     ELSE <<4>> \o <<data.relayers[1].relayer, 0, 0, 0>>
              \o EncodeU64(data.relayers[1].messages.begin)
              \o EncodeU64(data.relayers[1].messages.end)
              \o <<4 * data.relayers[1].messages.dispatch_results.bits>>
              \o data.relayers[1].messages.dispatch_results.data)
    \o EncodeU64(data.last_confirmed_nonce)

----------------------------------------------------------------------------
(* mod target: verify_messages_proof *)

MessageProofError_Empty == "Messages proof is empty"
MessageProofError_MessagesCountMismatch == "Declared messages count doesn't match actual value"
MessageProofError_MissingRequiredMessage == "Message is missing from the proof"
MessageProofError_FailedToDecodeMessage == "Failed to decode message from the proof"
MessageProofError_FailedToDecodeOutboundLaneState == "Failed to decode outbound lane data from the proof"

\* the header oracle of the bridged chain: finalized header hash -> state root
ImportedHeaders == [hash \in {"h1"} |-> "r1"]

\* pallet_bridge_grandpa::parse_finalized_storage_proof: the header must be finalized
\* and the trie nodes must belong to its state root; the storage the proof proves is
\* then readable
parse_finalized_storage_proof(bridged_header_hash, storage_proof) ==
    IF bridged_header_hash \notin DOMAIN ImportedHeaders THEN Err("UnknownHeader")
    ELSE IF storage_proof.root # ImportedHeaders[bridged_header_hash] THEN Err("MalformedProof")
    ELSE Ok(storage_proof)

\* StorageProofChecker::read_value of a key: Ok(None), Err(_) or Ok(Some(raw))
Absent == [kind |-> "absent", v |-> <<>>]
Unreadable == [kind |-> "error", v |-> <<>>]
Value(raw) == [kind |-> "value", v |-> raw]

\* StorageProofChecker::read_value(..).ok()?: a read error counts as a missing value
read_value_ok(entry) == IF entry.kind = "value" THEN Some(entry.v) ELSE None

\* MessageProofParser::read_raw_message
read_raw_message(parser, message_key) ==
    IF message_key.nonce \in DOMAIN parser.messages
    THEN read_value_ok(parser.messages[message_key.nonce])
    ELSE None

\* MessageProofParser::read_raw_outbound_lane_data
read_raw_outbound_lane_data(parser, lane_id) == read_value_ok(parser.outbound_lane_data)

\* the addition wrapping around at MessageNonce::MAX
nonce_wrapping_add(a, b) == (a + b) % (NonceMax + 1)

\* MessageNonce::saturating_add
nonce_saturating_add(a, b) == IF a + b > NonceMax THEN NonceMax ELSE a + b

RECURSIVE ReadMessages_skipping_failures(_, _, _, _, _)
\* the loop going on past a message it cannot read or decode
ReadMessages_skipping_failures(parser, lane, nonce, nonces_end, messages) ==
    IF nonce > nonces_end THEN Ok(messages)
    ELSE LET message_key == [lane_id |-> lane, nonce |-> nonce]
             raw_message_data == read_raw_message(parser, message_key)
             message_data == DecodeMessageData(raw_message_data.v)
         IN ReadMessages_skipping_failures(parser, lane, nonce + 1, nonces_end,
                IF raw_message_data.some /\ message_data.some
                THEN Append(messages, [key |-> message_key, data |-> message_data.v])
                ELSE messages)

RECURSIVE ReadMessages_newest_first(_, _, _, _, _)
\* the loop putting each message in front of the ones read before it
ReadMessages_newest_first(parser, lane, nonce, nonces_end, messages) ==
    IF nonce > nonces_end THEN Ok(messages)
    ELSE LET message_key == [lane_id |-> lane, nonce |-> nonce]
             raw_message_data == read_raw_message(parser, message_key)
             message_data == DecodeMessageData(raw_message_data.v)
         IN IF ~raw_message_data.some THEN Err(MessageProofError_MissingRequiredMessage)
            ELSE IF ~message_data.some THEN Err(MessageProofError_FailedToDecodeMessage)
            ELSE ReadMessages_newest_first(parser, lane, nonce + 1, nonces_end,
                     <<[key |-> message_key, data |-> message_data.v]>> \o messages)

RECURSIVE ReadMessages(_, _, _, _, _)
\* `for nonce in nonces_start..=nonces_end`: the first failure ends the loop
ReadMessages(parser, lane, nonce, nonces_end, messages) ==
    IF nonce > nonces_end THEN Ok(messages)
    ELSE LET message_key == [lane_id |-> lane, nonce |-> nonce]
             raw_message_data == read_raw_message(parser, message_key)
             message_data == DecodeMessageData(raw_message_data.v)
         IN IF ~raw_message_data.some THEN Err(MessageProofError_MissingRequiredMessage)
            ELSE IF ~message_data.some THEN Err(MessageProofError_FailedToDecodeMessage)
            ELSE ReadMessages(parser, lane, nonce + 1, nonces_end,
                              Append(messages, [key |-> message_key, data |-> message_data.v]))

\* the lane state that does not decode taken for no lane state
ParseMessagesProof_ignoring_undecodable_lane_state(parser, proof) ==
    LET messages == ReadMessages(parser, proof.lane, proof.nonces_start, proof.nonces_end, <<>>)
        raw_outbound_lane_data == read_raw_outbound_lane_data(parser, proof.lane)
        outbound_lane_data == DecodeOutboundLaneData(raw_outbound_lane_data.v)
    IN IF ~messages.ok THEN messages
       ELSE IF ~(raw_outbound_lane_data.some /\ outbound_lane_data.some) /\ messages.val = <<>>
            THEN Err(MessageProofError_Empty)
       ELSE Ok(proof.lane :> [lane_state |-> IF raw_outbound_lane_data.some
                                              THEN outbound_lane_data ELSE None,
                              messages |-> messages.val])

\* the emptiness of the proof never looked at
ParseMessagesProof_without_empty_check(parser, proof) ==
    LET messages == ReadMessages(parser, proof.lane, proof.nonces_start, proof.nonces_end, <<>>)
        raw_outbound_lane_data == read_raw_outbound_lane_data(parser, proof.lane)
        outbound_lane_data == DecodeOutboundLaneData(raw_outbound_lane_data.v)
    IN IF ~messages.ok THEN messages
       ELSE IF raw_outbound_lane_data.some /\ ~outbound_lane_data.some
            THEN Err(MessageProofError_FailedToDecodeOutboundLaneState)
       ELSE Ok(proof.lane :> [lane_state |-> IF raw_outbound_lane_data.some
                                              THEN outbound_lane_data ELSE None,
                              messages |-> messages.val])

\* the part of verify_messages_proof_with_parser that follows build_parser
ParseMessagesProof(parser, proof) ==
    LET messages == ReadMessages(parser, proof.lane, proof.nonces_start, proof.nonces_end, <<>>)
        raw_outbound_lane_data == read_raw_outbound_lane_data(parser, proof.lane)
        outbound_lane_data == DecodeOutboundLaneData(raw_outbound_lane_data.v)
    IN IF ~messages.ok THEN messages
       ELSE IF raw_outbound_lane_data.some /\ ~outbound_lane_data.some
            THEN Err(MessageProofError_FailedToDecodeOutboundLaneState)
       ELSE IF ~raw_outbound_lane_data.some /\ messages.val = <<>>
            THEN Err(MessageProofError_Empty)
       ELSE Ok(proof.lane :> [lane_state |-> IF raw_outbound_lane_data.some
                                              THEN outbound_lane_data ELSE None,
                              messages |-> messages.val])

\* verify_messages_proof_with_parser: the count check of a non-empty range
messages_count_mismatches(proof, messages_count) ==
    /\ proof.nonces_end >= proof.nonces_start
    /\ nonce_saturating_add(proof.nonces_end - proof.nonces_start, 1) # messages_count

\* the parser built from the storage proof of a header that is not looked up
verify_messages_proof_trusting_header(proof, messages_count) ==
    IF messages_count_mismatches(proof, messages_count)
    THEN Err(MessageProofError_MessagesCountMismatch)
    ELSE ParseMessagesProof(proof.storage_proof, proof)

\* verify_messages_proof_with_parser, its build_parser being the one of
\* verify_messages_proof
verify_messages_proof(proof, messages_count) ==
    IF messages_count_mismatches(proof, messages_count)
    THEN Err(MessageProofError_MessagesCountMismatch)
    ELSE LET parser == parse_finalized_storage_proof(proof.bridged_header_hash, proof.storage_proof)
         IN IF ~parser.ok THEN parser ELSE ParseMessagesProof(parser.val, proof)

----------------------------------------------------------------------------
(* mod source: verify_messages_delivery_proof *)

FAILED_TO_READ_INBOUND_LANE_STATE == "Failed to read inbound lane state from storage proof"
INBOUND_LANE_STATE_IS_MISSING == "Inbound lane state is missing from the messages proof"
FAILED_TO_DECODE_INBOUND_LANE_STATE == "Failed to decode inbound lane state from the proof"

\* the closure given to parse_finalized_storage_proof, returning the lane of another
\* key of the storage
ReadInboundLaneData_of_any_lane(storage, lane) ==
    LET other == CHOOSE l \in DOMAIN storage.inbound_lanes :
                     l # lane \/ DOMAIN storage.inbound_lanes = {lane}
        entry == storage.inbound_lanes[other]
        inbound_lane_data == DecodeInboundLaneData(entry.v)
    IN IF entry.kind = "error" THEN Err(FAILED_TO_READ_INBOUND_LANE_STATE)
       ELSE IF entry.kind = "absent" THEN Err(INBOUND_LANE_STATE_IS_MISSING)
       ELSE IF ~inbound_lane_data.some THEN Err(FAILED_TO_DECODE_INBOUND_LANE_STATE)
       ELSE Ok(<<other, inbound_lane_data.v>>)

\* the closure given to parse_finalized_storage_proof: one key is read, any error is
\* fatal
ReadInboundLaneData(storage, lane) ==
    LET entry == IF lane \in DOMAIN storage.inbound_lanes
                 THEN storage.inbound_lanes[lane] ELSE Absent
        inbound_lane_data == DecodeInboundLaneData(entry.v)
    IN IF entry.kind = "error" THEN Err(FAILED_TO_READ_INBOUND_LANE_STATE)
       ELSE IF entry.kind = "absent" THEN Err(INBOUND_LANE_STATE_IS_MISSING)
       ELSE IF ~inbound_lane_data.some THEN Err(FAILED_TO_DECODE_INBOUND_LANE_STATE)
       ELSE Ok(<<lane, inbound_lane_data.v>>)

verify_messages_delivery_proof(proof) ==
    LET storage == parse_finalized_storage_proof(proof.bridged_header_hash, proof.storage_proof)
    IN IF ~storage.ok THEN storage ELSE ReadInboundLaneData(storage.val, proof.lane)

----------------------------------------------------------------------------
(* SpecProof: verify_messages_proof applied to drawn proofs *)

\* what the proof holds for the message of a nonce: nothing, an unreadable node, the
\* message of the test parser, the empty value of the failing test parser, or a value
\* cut after its payload
MessageEntries(nonce) ==
    {Absent, Unreadable, Value(EncodedTestMessage(nonce)), Value(<<>>), Value(<<4, nonce>>)}

TestOutboundLaneData ==
    [oldest_unpruned_nonce |-> 1, latest_received_nonce |-> 1, latest_generated_nonce |-> 1]

\* what the proof holds for the outbound lane state: nothing, an unreadable node, the
\* lane state of the tests, or the empty value of the failing test parser
LaneStateEntries ==
    {Absent, Unreadable, Value(EncodeOutboundLaneData(TestOutboundLaneData)), Value(<<>>)}

\* messages are stored for the nonces 1..NonceMax - 1; the last of them is there or not
StoredMessages ==
    {m \in [1..(NonceMax - 1) -> UNION {MessageEntries(n) : n \in 1..(NonceMax - 1)}] :
        /\ \A n \in 1..(NonceMax - 1) : m[n] \in MessageEntries(n)
        /\ \A n \in 3..(NonceMax - 1) : m[n].kind = "absent" \/ m[n] = Value(EncodedTestMessage(n))}

StorageProofs ==
    [root : {"r1", "r2"}, messages : StoredMessages, outbound_lane_data : LaneStateEntries]

MessagesProofs ==
    [bridged_header_hash : {"h1", "h2"}, storage_proof : StorageProofs, lane : {<<0, 0, 0, 0>>},
     nonces_start : 0..NonceMax, nonces_end : 0..NonceMax]

\* inbound lane states: the default one, and one relayer with the messages 1..=2
\* delivered and two dispatch results
TestInboundLaneData ==
    {[relayers |-> <<>>, last_confirmed_nonce |-> 0],
     [relayers |-> <<[relayer |-> 1,
                      messages |-> [begin |-> 1, end |-> 2,
                                    dispatch_results |-> [bits |-> 2, data |-> <<192>>]]]>>,
      last_confirmed_nonce |-> 0]}

\* what the proof holds for the inbound lane state of a lane: nothing, an unreadable
\* node, an encoded lane state, no byte at all, a relayer entry cut short, or a
\* lane state with bytes left over
InboundLaneStateEntries ==
    {Absent, Unreadable, Value(<<>>), Value(<<4, 1, 0, 0, 0>>),
     Value(<<0>> \o EncodeU64(3) \o <<7>>)}
    \cup {Value(EncodeInboundLaneData(data)) : data \in TestInboundLaneData}

DeliveryLanes == {<<0, 0, 0, 0>>, <<0, 0, 0, 1>>}

DeliveryStorageProofs ==
    [root : {"r1", "r2"}, inbound_lanes : [DeliveryLanes -> InboundLaneStateEntries]]

MessagesDeliveryProofs ==
    [bridged_header_hash : {"h1", "h2"}, storage_proof : DeliveryStorageProofs,
     lane : DeliveryLanes \cup {<<0, 0, 0, 2>>}]

\* the relay, MillauMessagesToRialto::make_messages_delivery_transaction:
\* `nonces_end - nonces_start + 1` in the nonce type, then `messages_count as _`.
\* An arithmetic overflow panics in a build with overflow checks and wraps in a build
\* without them. The transaction is the receive_messages_proof call, whose proof the
\* target chain verifies with the count of the call.
make_messages_delivery_transaction(proof, overflow_checks) ==
    LET difference == proof.nonces_end - proof.nonces_start
        overflows == difference < 0 \/ difference + 1 > NonceMax
        messages_count == (difference + 1) % (NonceMax + 1)
        narrowed == messages_count % (CountMax + 1)
    IN IF overflows /\ overflow_checks
       THEN Err(IF difference < 0 THEN "attempt to subtract with overflow"
                ELSE "attempt to add with overflow")
       ELSE Ok([messages_count |-> narrowed,
                receive_messages_proof |-> verify_messages_proof(proof, narrowed)])

InitProof ==
    /\ pc = "call"
    /\ \/ /\ op = "verify_messages_proof"
          /\ arg \in [proof : MessagesProofs, messages_count : 0..CountMax]
       \/ /\ op = "verify_messages_delivery_proof"
          /\ arg \in [proof : MessagesDeliveryProofs]
       \/ /\ op = "make_messages_delivery_transaction"
          /\ arg \in [proof : MessagesProofs, overflow_checks : BOOLEAN]
    /\ res = NoResult
    /\ lane_outbound_data = DefaultOutboundLaneData
    /\ balances = NoBalances

VerifyMessagesProof ==
    /\ pc = "call" /\ op = "verify_messages_proof"
    /\ res' = verify_messages_proof(arg.proof, arg.messages_count)
    /\ pc' = "done"
    /\ UNCHANGED <<op, arg, lane_outbound_data, balances>>

VerifyMessagesDeliveryProof ==
    /\ pc = "call" /\ op = "verify_messages_delivery_proof"
    /\ res' = verify_messages_delivery_proof(arg.proof)
    /\ pc' = "done"
    /\ UNCHANGED <<op, arg, lane_outbound_data, balances>>

MakeMessagesDeliveryTransaction ==
    /\ pc = "call" /\ op = "make_messages_delivery_transaction"
    /\ res' = make_messages_delivery_transaction(arg.proof, arg.overflow_checks)
    /\ pc' = "done"
    /\ UNCHANGED <<op, arg, lane_outbound_data, balances>>

NextProof ==
    \/ VerifyMessagesProof
    \/ VerifyMessagesDeliveryProof
    \/ MakeMessagesDeliveryTransaction

SpecProof == InitProof /\ [][NextProof]_vars

----------------------------------------------------------------------------
(* mod target: FromBridgedChainMessageDispatch::dispatch *)

\* ExistentialDeposit of the runtime: an account left with less is removed
ExistentialDeposit == 2

\* spec_version of this runtime
VERSION_spec_version == 1

\* ThisRuntime::WeightToFee::calc: the identity fee of the Rialto runtime
WeightToFee_calc(weight) == IF weight > BalanceMax THEN BalanceMax ELSE weight

\* Currency::transfer(source, dest, value, ExistenceRequirement::AllowDeath) of the
\* balances pallet: nothing changes when it fails
Currency_transfer(free, source, dest, value) ==
    IF value = 0 \/ source = dest THEN [ok |-> TRUE, balances |-> free]
    ELSE IF free[source] < value THEN [ok |-> FALSE, balances |-> free]
    ELSE IF free[dest] > BalanceMax - value THEN [ok |-> FALSE, balances |-> free]
    ELSE IF free[dest] + value < ExistentialDeposit THEN [ok |-> FALSE, balances |-> free]
    ELSE [ok |-> TRUE,
          balances |-> [free EXCEPT ![dest] = @ + value,
                                    ![source] = IF @ - value < ExistentialDeposit
                                                THEN 0 ELSE @ - value]]

\* the closure charging the weight fee without the fee multiplier
pay_dispatch_fee_unadjusted(free, relayer_account, fee_multiplier, dispatch_origin, dispatch_weight) ==
    LET unadjusted_weight_fee == WeightToFee_calc(dispatch_weight)
    IN IF unadjusted_weight_fee # 0
       THEN Currency_transfer(free, dispatch_origin, relayer_account, unadjusted_weight_fee)
       ELSE [ok |-> TRUE, balances |-> free]

\* the closure |dispatch_origin, dispatch_weight| given to the dispatch pallet
pay_dispatch_fee(free, relayer_account, fee_multiplier, dispatch_origin, dispatch_weight) ==
    LET unadjusted_weight_fee == WeightToFee_calc(dispatch_weight)
        adjusted_weight_fee == saturating_mul_int(fee_multiplier, unadjusted_weight_fee)
    IN IF adjusted_weight_fee # 0
       THEN Currency_transfer(free, dispatch_origin, relayer_account, adjusted_weight_fee)
       ELSE [ok |-> TRUE, balances |-> free]

\* the account a call origin dispatches as
dispatch_origin_of(origin) ==
    IF origin.kind = "SourceRoot" THEN DerivedRootAccount ELSE origin.id

MessageDispatchResult(dispatch_result, dispatch_fee_paid_during_dispatch) ==
    [dispatch_result |-> dispatch_result,
     dispatch_fee_paid_during_dispatch |-> dispatch_fee_paid_during_dispatch]

\* pallet_bridge_dispatch::dispatch: a message that does not decode or is of another
\* spec version is rejected; the fee of a message paying at the target chain is charged
\* before the call, and a failed payment fails the message; the call touches no balance
pallet_bridge_dispatch_dispatch(free, relayer_account, fee_multiplier, message, call_succeeds) ==
    LET payload == message.data.payload.val
        at_target_chain == payload.dispatch_fee_payment = "AtTargetChain"
        paid == IF at_target_chain
                THEN pay_dispatch_fee(free, relayer_account, fee_multiplier,
                                      dispatch_origin_of(payload.origin), payload.weight)
                ELSE [ok |-> TRUE, balances |-> free]
    IN IF ~message.data.payload.ok \/ payload.spec_version # VERSION_spec_version
       THEN [balances |-> free, result |-> MessageDispatchResult(FALSE, FALSE)]
       ELSE IF ~paid.ok
       THEN [balances |-> free, result |-> MessageDispatchResult(FALSE, FALSE)]
       ELSE [balances |-> paid.balances,
             result |-> MessageDispatchResult(call_succeeds, at_target_chain)]

\* FromBridgedChainMessageDispatch::dispatch
dispatch(free, relayer_account, fee_multiplier, message, call_succeeds) ==
    pallet_bridge_dispatch_dispatch(free, relayer_account, fee_multiplier, message, call_succeeds)

----------------------------------------------------------------------------
(* SpecDispatch: dispatch applied to drawn messages, relayers and balances *)

DispatchPayloads ==
    [spec_version : {VERSION_spec_version, VERSION_spec_version + 1},
     weight : {0, 1, 10},
     origin : {[kind |-> "SourceRoot", id |-> ""]}
                  \cup [kind : {"TargetAccount"}, id : TargetAccounts],
     dispatch_fee_payment : {"AtSourceChain", "AtTargetChain"}]

\* messages whose payload decoded, and one whose payload did not
DispatchMessages ==
    [key : {[lane_id |-> <<0, 0, 0, 0>>, nonce |-> 0]},
     data : [payload : {Ok(payload) : payload \in DispatchPayloads} \cup {Err("")},
             fee : {1}]]

\* NextFeeMultiplier: 0, 1/2, 1 and 2
FeeMultipliers == {[n |-> 0, d |-> 1], [n |-> 1, d |-> 2], [n |-> 1, d |-> 1], [n |-> 2, d |-> 1]}

\* nothing, less than the deposit, the deposit, a fee of 10 and less than the deposit,
\* a fee of 10 and the deposit, and the maximum
FreeBalances ==
    {0, 1, ExistentialDeposit, 10 + ExistentialDeposit - 1, 10 + ExistentialDeposit, BalanceMax}

\* free_balance: the balances when dispatch is called
InitDispatch ==
    /\ pc = "call"
    /\ op = "dispatch"
    /\ arg \in [relayer_account : TargetAccounts, message : DispatchMessages,
                fee_multiplier : FeeMultipliers, call_succeeds : BOOLEAN,
                free_balance : [Accounts -> FreeBalances]]
    /\ res = NoResult
    /\ lane_outbound_data = DefaultOutboundLaneData
    /\ balances = arg.free_balance

Dispatch ==
    /\ pc = "call" /\ op = "dispatch"
    /\ LET dispatched == dispatch(balances, arg.relayer_account, arg.fee_multiplier,
                                  arg.message, arg.call_succeeds)
       IN /\ balances' = dispatched.balances
          /\ res' = Ok(dispatched.result)
    /\ pc' = "done"
    /\ UNCHANGED <<op, arg, lane_outbound_data>>

NextDispatch == Dispatch

SpecDispatch == InitDispatch /\ [][NextDispatch]_vars

----------------------------------------------------------------------------
(* What the claims read from a finished verify_message call *)

Returned(name) == pc = "done" /\ op = name

\* the pending messages of the call's lane state, in plain arithmetic
ArgPending ==
    IF arg.lane_outbound_data.latest_generated_nonce >= arg.lane_outbound_data.latest_received_nonce
    THEN arg.lane_outbound_data.latest_generated_nonce - arg.lane_outbound_data.latest_received_nonce
    ELSE 0

ArgLaneAndCapacityPass == arg.lane = TEST_LANE_ID /\ ArgPending <= 32

ArgOriginMatches ==
    \/ arg.payload.origin.kind = "SourceRoot" /\ arg.submitter.kind = "Root"
    \/ /\ arg.payload.origin.kind = "SourceAccount"
       /\ arg.submitter = [kind |-> "Signed", id |-> arg.payload.origin.id]

\* the fee of the test bridge in unbounded arithmetic: base, interest product and total
MathBase(payload) ==
    bridged_balance_to_this_balance(BridgedChain_transaction_payment(
        estimate_delivery_transaction(payload, payload.dispatch_fee_payment = "AtTargetChain",
            IF payload.dispatch_fee_payment = "AtTargetChain" THEN 0 ELSE payload.weight)))
    + ThisChain_transaction_payment(estimate_delivery_confirmation_transaction)

MathTotal(payload, percent) ==
    MathBase(payload) + (MathBase(payload) * percent) \div 100

MathOverflows(payload, percent) ==
    \/ MathBase(payload) > BalanceMax
    \/ MathBase(payload) * percent > BalanceMax
    \/ MathTotal(payload, percent) > BalanceMax

----------------------------------------------------------------------------
(* C1: verify_message returns Ok only when the fee paid is at least the      *)
(* estimate for the payload at RELAYER_FEE_PERCENT, and when lane, capacity   *)
(* and origin checks pass and the fee is strictly below the estimate it       *)
(* returns the too-low-fee error.                                             *)
C1_FeeIsChecked ==
    Returned("verify_message") =>
        LET minimal == estimate_message_dispatch_and_delivery_fee(arg.payload, RELAYER_FEE_PERCENT)
        IN /\ res.ok => (minimal.ok /\ arg.delivery_and_dispatch_fee >= minimal.val)
           /\ (ArgLaneAndCapacityPass /\ ArgOriginMatches /\ minimal.ok
               /\ arg.delivery_and_dispatch_fee < minimal.val) => res = Err(TOO_LOW_FEE)

\* the regular payload sent with one token less than its minimal fee is rejected
C1_Witness ==
    /\ Returned("verify_message")
    /\ arg.payload = RegularPayload /\ arg.delivery_and_dispatch_fee = 5499
    /\ res = Err(TOO_LOW_FEE)

(* C2: when no step overflows the estimate is base + base * percent / 100     *)
(* with base the converted delivery fee plus the confirmation fee; for the    *)
(* regular payload of the test bridge at 10 percent it is 5500.               *)
C2_FeeFormula ==
    Returned("estimate_message_dispatch_and_delivery_fee") =>
        /\ ~MathOverflows(arg.payload, arg.relayer_fee_percent) =>
               res = Ok(MathTotal(arg.payload, arg.relayer_fee_percent))
        /\ (arg.payload = RegularPayload /\ arg.relayer_fee_percent = 10) => res = Ok(5500)

\* a fee whose interest is rounded down: base 2720 at 10 percent gives 2992
C2_Witness ==
    /\ Returned("estimate_message_dispatch_and_delivery_fee")
    /\ arg.payload.weight = 5 /\ arg.payload.dispatch_fee_payment = "AtSourceChain"
    /\ arg.relayer_fee_percent = 10
    /\ res = Ok(2992)

(* C3: if the sum of the converted delivery fee and the confirmation fee, the *)
(* product with the percent or the sum with the interest exceeds the balance  *)
(* type, the estimate is the overflow error, verify_message never accepts the *)
(* message and reports that error once lane, capacity and origin pass; a fee  *)
(* that is returned is the exact one.                                         *)
C3_OverflowIsAnError ==
    /\ Returned("estimate_message_dispatch_and_delivery_fee") =>
           /\ MathOverflows(arg.payload, arg.relayer_fee_percent) => res = Err(FEE_OVERFLOW)
           /\ res.ok => res.val = MathTotal(arg.payload, arg.relayer_fee_percent)
    /\ (Returned("verify_message") /\ MathOverflows(arg.payload, RELAYER_FEE_PERCENT)) =>
           /\ ~res.ok
           /\ (ArgLaneAndCapacityPass /\ ArgOriginMatches) => res = Err(FEE_OVERFLOW)

\* the last checked_add is the step that overflows (1 percent of a nearly maximal fee)
C3_Witness ==
    /\ Returned("estimate_message_dispatch_and_delivery_fee")
    /\ MathBase(arg.payload) * arg.relayer_fee_percent <= BalanceMax
    /\ MathTotal(arg.payload, arg.relayer_fee_percent) > BalanceMax
    /\ res = Err(FEE_OVERFLOW)

(* C4: a message to a lane that is not enabled is rejected with the           *)
(* lane-disabled error whatever submitter, fee, lane state and payload are.   *)
C4_DisabledLaneRejects ==
    (Returned("verify_message") /\ arg.lane # TEST_LANE_ID) => res = Err(OUTBOUND_LANE_DISABLED)

\* the test's call: root, a large fee, the regular payload, lane b"dsbl"
C4_Witness ==
    /\ Returned("verify_message")
    /\ arg.lane = DSBL_LANE_ID /\ arg.submitter.kind = "Root"
    /\ arg.delivery_and_dispatch_fee = 1000000 /\ arg.payload = RegularPayload
    /\ arg.lane_outbound_data = DefaultOutboundLaneData
    /\ res = Err(OUTBOUND_LANE_DISABLED)

(* C5: on an enabled lane the too-many-pending error is returned exactly when *)
(* latest_generated_nonce - latest_received_nonce, saturating at 0, is        *)
(* strictly greater than the limit of 32.                                     *)
C5_TooManyPendingExactly ==
    (Returned("verify_message") /\ arg.lane = TEST_LANE_ID) =>
        (res = Err(TOO_MANY_PENDING_MESSAGES) <=> ArgPending > 32)

\* the test's lane state: 100 received, 100 + 32 + 1 generated
C5_Witness ==
    /\ Returned("verify_message") /\ arg.lane = TEST_LANE_ID
    /\ arg.lane_outbound_data.latest_received_nonce = 100
    /\ arg.lane_outbound_data.latest_generated_nonce = 133
    /\ res = Err(TOO_MANY_PENDING_MESSAGES)

(* C7: an accepted payload with origin SourceRoot comes from Sender::Root and *)
(* one with origin SourceAccount(a) from Sender::Signed(a); with lane and     *)
(* capacity fine every other submitter gets the bad-origin error, whatever    *)
(* the fee.                                                                   *)
C7_OriginBinding ==
    Returned("verify_message") =>
        /\ res.ok => ArgOriginMatches
        /\ (ArgLaneAndCapacityPass /\ ~ArgOriginMatches) => res = Err(BAD_ORIGIN)

\* SourceAccount(1) sent by Signed(0) with a sufficient fee
C7_Witness ==
    /\ Returned("verify_message")
    /\ arg.payload.origin = [kind |-> "SourceAccount", id |-> 1]
    /\ arg.submitter = [kind |-> "Signed", id |-> 0]
    /\ arg.delivery_and_dispatch_fee = 1000000
    /\ res = Err(BAD_ORIGIN)

(* C8: verify_chain_message returns Ok exactly when the declared weight lies  *)
(* in message_weight_limits(call), bounds included, and the call is no longer *)
(* than maximal_message_size().                                               *)
C8_ChainMessageExactly ==
    Returned("verify_chain_message") =>
        (res.ok <=>
            /\ message_weight_limits(arg.payload.call).begin <= arg.payload.weight
            /\ arg.payload.weight <= message_weight_limits(arg.payload.call).end
            /\ Len(arg.payload.call) <= maximal_message_size)

\* the maximal weight with a call of exactly the maximal size is accepted
C8_Witness ==
    /\ Returned("verify_chain_message")
    /\ arg.payload.weight = BRIDGED_CHAIN_MAX_EXTRINSIC_WEIGHT
    /\ Len(arg.payload.call) = maximal_message_size
    /\ res.ok

----------------------------------------------------------------------------
(* C6: starting from an empty lane, under sends guarded by verify_message and *)
(* delivery confirmations, the pending messages latest_generated_nonce -      *)
(* latest_received_nonce never exceed maximal_pending_messages_at_outbound_   *)
(* lane().                                                                    *)
C6_PendingNeverExceedsLimit ==
    lane_outbound_data.latest_generated_nonce - lane_outbound_data.latest_received_nonce
        <= maximal_pending_messages_at_outbound_lane

----------------------------------------------------------------------------
(* What the claims read from a finished verify_messages_proof call *)

\* the nonces nonces_start..=nonces_end of the proof
ArgNonces == arg.proof.nonces_start..arg.proof.nonces_end

ArgHeaderIsFinalized == arg.proof.bridged_header_hash \in DOMAIN ImportedHeaders

(* C9: a proof whose declared messages_count differs from the number of its   *)
(* nonces, nonces_end - nonces_start + 1, is rejected with the count-mismatch *)
(* error, be the count smaller or larger.                                     *)
C9_CountMismatchIsRejected ==
    (Returned("verify_messages_proof") /\ arg.messages_count # Cardinality(ArgNonces)) =>
        res = Err(MessageProofError_MessagesCountMismatch)

(* C10: verify_messages_proof(proof, k) succeeds only if the source header is *)
(* finalized and the proof holds exactly k messages: no call with a k         *)
(* different from the number of messages returned succeeds.                   *)
C10_SucceedsOnlyWithExactlyK ==
    (Returned("verify_messages_proof") /\ res.ok) =>
        /\ ArgHeaderIsFinalized
        /\ Len(res.val[arg.proof.lane].messages) = arg.messages_count

----------------------------------------------------------------------------
(* What the claims read from the storage of a verify_messages_proof call *)

\* the count check lets the call through and the parser is built
ArgReachesParser ==
    /\ \/ arg.proof.nonces_end < arg.proof.nonces_start
       \/ arg.messages_count = arg.proof.nonces_end - arg.proof.nonces_start + 1
       \/ /\ arg.proof.nonces_end - arg.proof.nonces_start + 1 > NonceMax
          /\ arg.messages_count = NonceMax
    /\ ArgHeaderIsFinalized
    /\ arg.proof.storage_proof.root = ImportedHeaders[arg.proof.bridged_header_hash]

\* what the storage proof holds for the message of a nonce
ArgMessageEntry(n) ==
    IF n \in DOMAIN arg.proof.storage_proof.messages
    THEN arg.proof.storage_proof.messages[n] ELSE Absent

ArgMessageIsMissing(n) == ArgMessageEntry(n).kind # "value"

ArgMessageIsUndecodable(n) ==
    ArgMessageEntry(n).kind = "value" /\ ~DecodeMessageData(ArgMessageEntry(n).v).some

ArgFailingNonces == {n \in ArgNonces : ArgMessageIsMissing(n) \/ ArgMessageIsUndecodable(n)}

ArgFirstFailingNonce == CHOOSE n \in ArgFailingNonces : \A m \in ArgFailingNonces : n <= m

\* the list returned is the whole range, in order, each message decoded from its value
ResHoldsEveryMessage ==
    LET messages == res.val[arg.proof.lane].messages
    IN /\ Len(messages) = Cardinality(ArgNonces)
       /\ \A i \in 1..Len(messages) :
              /\ messages[i].key = [lane_id |-> arg.proof.lane, nonce |-> arg.proof.nonces_start + i - 1]
              /\ Some(messages[i].data) = DecodeMessageData(ArgMessageEntry(messages[i].key.nonce).v)

(* C11 as stated: once the parser is built, a nonce of the range whose value  *)
(* is absent or unreadable makes the call fail with the missing-message       *)
(* error, a present value that does not decode makes it fail with the         *)
(* message-decoding error, and no partial list is returned.                   *)
C11_MissingThenUndecodable ==
    (Returned("verify_messages_proof") /\ ArgReachesParser) =>
        /\ (\E n \in ArgNonces : ArgMessageIsMissing(n)) =>
               res = Err(MessageProofError_MissingRequiredMessage)
        /\ ((\E n \in ArgNonces : ArgMessageIsUndecodable(n))
            /\ ~\E n \in ArgNonces : ArgMessageIsMissing(n)) =>
               res = Err(MessageProofError_FailedToDecodeMessage)
        /\ res.ok => ResHoldsEveryMessage

(* C11 amended: once the parser is built, the call fails with the error of    *)
(* the first nonce of the range, in ascending order, whose value is absent,   *)
(* unreadable (missing-message error) or undecodable (message-decoding        *)
(* error); a successful call returns every message of the range.              *)
C11_FirstFailingNonceDecides ==
    (Returned("verify_messages_proof") /\ ArgReachesParser) =>
        /\ ArgFailingNonces # {} =>
               res = Err(IF ArgMessageIsMissing(ArgFirstFailingNonce)
                         THEN MessageProofError_MissingRequiredMessage
                         ELSE MessageProofError_FailedToDecodeMessage)
        /\ res.ok => (ArgFailingNonces = {} /\ ResHoldsEveryMessage)

\* two messages declared, the first undecodable and the second missing
C11_Witness ==
    /\ Returned("verify_messages_proof") /\ ArgReachesParser
    /\ arg.proof.nonces_start = 1 /\ arg.proof.nonces_end = 2
    /\ ArgMessageIsUndecodable(1) /\ ArgMessageIsMissing(2)
    /\ res = Err(MessageProofError_FailedToDecodeMessage)

\* what the storage proof holds for the outbound lane state
ArgLaneStateEntry == arg.proof.storage_proof.outbound_lane_data

\* the messages of the range are all there and decode
ArgReachesLaneState == ArgReachesParser /\ ArgFailingNonces = {}

(* C12: the outbound lane state of a messages proof is optional. When it is   *)
(* absent the call succeeds for a non-empty range with lane_state = None;     *)
(* when it is present and decodes it is returned as Some(data); when it is    *)
(* present and does not decode the call fails with the outbound-lane-state    *)
(* decoding error.                                                            *)
C12_LaneStateIsOptional ==
    (Returned("verify_messages_proof") /\ ArgReachesLaneState) =>
        /\ (ArgLaneStateEntry.kind # "value" /\ ArgNonces # {}) =>
               (res.ok /\ res.val[arg.proof.lane].lane_state = None)
        /\ (ArgLaneStateEntry = Value(EncodeOutboundLaneData(TestOutboundLaneData))) =>
               (res.ok /\ res.val[arg.proof.lane].lane_state = Some(TestOutboundLaneData))
        /\ (ArgLaneStateEntry.kind = "value" /\ Len(ArgLaneStateEntry.v) < 24) =>
               res = Err(MessageProofError_FailedToDecodeOutboundLaneState)

\* two messages and a lane state that does not decode
C12_Witness ==
    /\ Returned("verify_messages_proof") /\ ArgReachesLaneState
    /\ Cardinality(ArgNonces) = 2
    /\ ArgLaneStateEntry = Value(<<>>)
    /\ res = Err(MessageProofError_FailedToDecodeOutboundLaneState)

(* C13: a proof with zero messages and no outbound lane state is rejected     *)
(* with the empty-proof error; a proof with zero messages and a decodable     *)
(* outbound lane state is accepted and returns that lane state with an empty  *)
(* list of messages.                                                          *)
C13_EmptyProofIsRejected ==
    (Returned("verify_messages_proof") /\ ArgReachesParser /\ ArgNonces = {}) =>
        /\ ArgLaneStateEntry.kind # "value" => res = Err(MessageProofError_Empty)
        /\ ArgLaneStateEntry = Value(EncodeOutboundLaneData(TestOutboundLaneData)) =>
               res = Ok(arg.proof.lane :> [lane_state |-> Some(TestOutboundLaneData),
                                           messages |-> <<>>])

\* the test's proof: the range 1..=0, declared count 0, no lane state
C13_Witness ==
    /\ Returned("verify_messages_proof") /\ ArgReachesParser
    /\ arg.proof.nonces_start = 1 /\ arg.proof.nonces_end = 0 /\ arg.messages_count = 0
    /\ ArgLaneStateEntry = Absent
    /\ res = Err(MessageProofError_Empty)

----------------------------------------------------------------------------
(* What the claims read from a finished verify_messages_delivery_proof call *)

\* what the storage proof holds for the inbound lane state of the proof's lane
ArgInboundLaneStateEntry ==
    IF arg.proof.lane \in DOMAIN arg.proof.storage_proof.inbound_lanes
    THEN arg.proof.storage_proof.inbound_lanes[arg.proof.lane] ELSE Absent

\* the header is finalized and the trie nodes belong to its state root
ArgStorageIsProved ==
    /\ ArgHeaderIsFinalized
    /\ arg.proof.storage_proof.root = ImportedHeaders[arg.proof.bridged_header_hash]

\* the lane states whose encoding the value starts with
ArgInboundLaneDataEncoded ==
    {data \in TestInboundLaneData \cup {[relayers |-> <<>>, last_confirmed_nonce |-> 3]} :
        /\ ArgInboundLaneStateEntry.kind = "value"
        /\ Len(EncodeInboundLaneData(data)) <= Len(ArgInboundLaneStateEntry.v)
        /\ EncodeInboundLaneData(data)
               = SubSeq(ArgInboundLaneStateEntry.v, 1, Len(EncodeInboundLaneData(data)))}

(* C14: verify_messages_delivery_proof returns Ok((lane, inbound_lane_data))  *)
(* only when the inbound lane state of the proof's lane is present in the     *)
(* storage proof and decodes; when reading the key fails, the value is absent *)
(* or does not decode, the call returns an error; the lane returned is the    *)
(* lane of the proof and the data the one encoded in the value.               *)
C14_DeliveryProofNeedsInboundLaneState ==
    Returned("verify_messages_delivery_proof") =>
        /\ res.ok => /\ ArgInboundLaneStateEntry.kind = "value"
                     /\ res.val[1] = arg.proof.lane
                     /\ res.val[2] \in ArgInboundLaneDataEncoded
        /\ ArgInboundLaneDataEncoded = {} => ~res.ok
        /\ (ArgStorageIsProved /\ ArgInboundLaneDataEncoded # {}) => res.ok

\* the lane state of lane 1 is proved while the one of lane 0 is unreadable
C14_Witness ==
    /\ Returned("verify_messages_delivery_proof")
    /\ arg.proof.lane = <<0, 0, 0, 1>>
    /\ arg.proof.storage_proof.inbound_lanes[<<0, 0, 0, 0>>] = Unreadable
    /\ res.ok /\ res.val[1] = <<0, 0, 0, 1>>
    /\ res.val[2].relayers # <<>>

(* C15: neither verify_messages_proof nor verify_messages_delivery_proof      *)
(* returns Ok for a proof whose header hash the header oracle of the bridged  *)
(* chain does not declare finalized: the call fails and returns no message    *)
(* and no lane state.                                                         *)
C15_OnlyFinalizedHeaders ==
    ((Returned("verify_messages_proof") \/ Returned("verify_messages_delivery_proof"))
     /\ ~ArgHeaderIsFinalized) =>
        (~res.ok /\ res.val = NoResult.val)

\* a messages proof with every message and the lane state there, of an unknown header
C15_Witness ==
    /\ Returned("verify_messages_proof")
    /\ arg.proof.bridged_header_hash = "h2"
    /\ arg.proof.nonces_start = 1 /\ arg.proof.nonces_end = 2 /\ arg.messages_count = 2
    /\ ArgFailingNonces = {}
    /\ ArgLaneStateEntry = Value(EncodeOutboundLaneData(TestOutboundLaneData))
    /\ ~res.ok

----------------------------------------------------------------------------
(* What the claims read from a finished dispatch call *)

ArgDispatchPayload == arg.message.data.payload.val

ArgDispatchOrigin ==
    IF ArgDispatchPayload.origin.kind = "SourceRoot"
    THEN DerivedRootAccount ELSE ArgDispatchPayload.origin.id

\* next fee multiplier times weight_to_fee of the declared weight
ArgAdjustedWeightFee ==
    (arg.fee_multiplier.n * ArgDispatchPayload.weight) \div arg.fee_multiplier.d

\* the message reaches the payment step and pays at the target chain
ArgPaysAtTargetChain ==
    /\ Returned("dispatch")
    /\ arg.message.data.payload.ok
    /\ ArgDispatchPayload.spec_version = VERSION_spec_version
    /\ ArgDispatchPayload.dispatch_fee_payment = "AtTargetChain"

\* the relayer has exactly the fee more, the dispatch origin exactly the fee less
FeeIsTransferredExactly ==
    /\ balances[arg.relayer_account] = arg.free_balance[arg.relayer_account] + ArgAdjustedWeightFee
    /\ balances[ArgDispatchOrigin] = arg.free_balance[ArgDispatchOrigin] - ArgAdjustedWeightFee

NoTransferAndMessageFailed ==
    balances = arg.free_balance /\ ~res.val.dispatch_result

NoTransferAndPaymentSucceeded ==
    /\ balances = arg.free_balance
    /\ res.val.dispatch_fee_paid_during_dispatch
    /\ res.val.dispatch_result = arg.call_succeeds

----------------------------------------------------------------------------
(* What the claims read from the numerical entry points *)

\* a value clipped to the maximum balance
Clipped(x) == IF x > BalanceMax THEN BalanceMax ELSE x

\* the three parts of the fee of the transaction_payment call, each clipped
ArgBaseFee == Clipped(arg.rate * arg.base_extrinsic_weight)

ArgLenFee == Clipped(arg.per_byte_fee * arg.transaction.size)

ArgAdjustedFee ==
    Clipped((arg.multiplier.n * Clipped(arg.rate * arg.transaction.dispatch_weight))
                \div arg.multiplier.d)

\* the transaction of the tests: base weight 100, 10 per byte, size 50, weight 777
ArgIsTestTransaction ==
    /\ arg.base_extrinsic_weight = 100 /\ arg.per_byte_fee = 10 /\ arg.rate = 1
    /\ arg.transaction = [size |-> 50, dispatch_weight |-> 777]

(* C17: transaction_payment returns weight_to_fee(base_extrinsic_weight) +    *)
(* per_byte_fee * size + multiplier * weight_to_fee(dispatch_weight), every   *)
(* product and sum clipped to the maximum balance and never wrapped; the      *)
(* tests' transaction costs 600 with multiplier zero and 1377 with            *)
(* multiplier one.                                                            *)
C17_TransactionPaymentSaturates ==
    Returned("transaction_payment") =>
        /\ res = Ok(Clipped(Clipped(ArgBaseFee + ArgLenFee) + ArgAdjustedFee))
        /\ res.val >= ArgBaseFee /\ res.val >= ArgLenFee /\ res.val >= ArgAdjustedFee
        /\ (ArgIsTestTransaction /\ arg.multiplier = [n |-> 0, d |-> 1]) => res = Ok(600)
        /\ (ArgIsTestTransaction /\ arg.multiplier = [n |-> 1, d |-> 1]) => res = Ok(1377)

\* the length fee alone exceeds the balance type while the multiplier is zero
C17_Witness ==
    /\ Returned("transaction_payment")
    /\ arg.per_byte_fee * arg.transaction.size > BalanceMax
    /\ arg.base_extrinsic_weight = 100 /\ arg.multiplier.n = 0
    /\ arg.transaction.dispatch_weight = 777
    /\ res = Ok(BalanceMax)

(* C18: WithMillauMessageBridge::bridged_balance_to_this_balance returns      *)
(* conversion_rate * bridged_balance, and the maximum of the Rialto balance   *)
(* whenever the product does not fit it, never a wrapped or smaller value;    *)
(* with the initial conversion rate it is the identity.                       *)
C18_ConversionClipsAtRialtoMax ==
    Returned("bridged_balance_to_this_balance") =>
        /\ res = Ok(Clipped((arg.conversion_rate.n * arg.bridged_balance)
                                \div arg.conversion_rate.d))
        /\ arg.conversion_rate = INITIAL_MILLAU_TO_RIALTO_CONVERSION_RATE =>
               res = Ok(arg.bridged_balance)

\* the largest even number that is at most two thirds of max
LargestEvenWithinTwoThirds(max) ==
    CHOOSE bound \in 0..max :
        bound % 2 = 0 /\ 3 * bound <= 2 * max /\ 3 * (bound + 2) > 2 * max

(* C19 as stated: maximal_incoming_message_size(max_ext_size) is              *)
(* max_ext_size * 2 / 3, rounded down, for every maximal extrinsic size.      *)
C19_TwoThirdsRoundedDown ==
    Returned("maximal_incoming_message_size") =>
        res = Ok((arg.maximal_extrinsic_size * 2) \div 3)

(* C19 amended: maximal_incoming_message_size(max_ext_size) is twice the      *)
(* third, rounded down, of max_ext_size: the largest even number that is at   *)
(* most two thirds of it; this is the bound verify_chain_message applies to   *)
(* the length of the call.                                                    *)
C19_TwiceTheThird ==
    /\ Returned("maximal_incoming_message_size") =>
           res = Ok(LargestEvenWithinTwoThirds(arg.maximal_extrinsic_size))
    /\ (/\ Returned("verify_chain_message")
        /\ message_weight_limits(arg.payload.call).begin <= arg.payload.weight
        /\ arg.payload.weight <= message_weight_limits(arg.payload.call).end) =>
           (res.ok <=>
               Len(arg.payload.call) <= LargestEvenWithinTwoThirds(BRIDGED_CHAIN_MAX_EXTRINSIC_SIZE))

\* a size that leaves 2 when divided by 3: the bound is 2, one less than 5 * 2 / 3
C19_Witness ==
    /\ Returned("maximal_incoming_message_size")
    /\ arg.maximal_extrinsic_size = 5
    /\ res = Ok(2)

(* C20: the Millau -> Rialto relay gives its delivery loop a                  *)
(* max_messages_size_in_single_batch of two thirds of the target chain's      *)
(* maximal extrinsic size, so that every call length the source chain accepts *)
(* (at most the maximal message size) fits into a single delivery batch.      *)
C20_BatchHoldsEveryAcceptedMessage ==
    Returned("run") =>
        /\ res.val.max_messages_size_in_single_batch = (arg.max_extrinsic_size * 2) \div 3
        /\ \A length \in 0..arg.max_extrinsic_size :
               length <= maximal_incoming_message_size(arg.max_extrinsic_size) =>
                   length <= res.val.max_messages_size_in_single_batch

----------------------------------------------------------------------------
\* the payload of the call with its dispatch fee prepaid at the source chain
ArgPrepaidPayload == [arg.payload EXCEPT !.dispatch_fee_payment = "AtSourceChain"]

ArgEstimatedAtTarget ==
    /\ Returned("estimate_message_dispatch_and_delivery_fee")
    /\ arg.payload.dispatch_fee_payment = "AtTargetChain"
    /\ res.ok
    /\ ~MathOverflows(ArgPrepaidPayload, arg.relayer_fee_percent)

----------------------------------------------------------------------------
----------------------------------------------------------------------------
(* The message payload on the wire: FromThisChainMessagePayload encoded on    *)
(* the source chain, FromBridgedChainMessagePayload decoded on the target     *)

\* u32::encode: four bytes, little-endian
EncodeU32(n) ==
    <<n % 256, (n \div 256) % 256, (n \div 65536) % 256, (n \div 16777216) % 256>>

\* Weight (u64)::encode: eight bytes, little-endian (the weights drawn fit 32 bits)
EncodeWeight(n) == EncodeU32(n) \o <<0, 0, 0, 0>>

\* Compact<u32>::encode of a length below 2^14
EncodeCompactLength(n) ==
    IF n <= 63 THEN <<4 * n>>
    ELSE <<(4 * n + 1) % 256, (4 * n + 1) \div 256>>

\* Vec<u8>::encode
EncodeBytes(bytes) == EncodeCompactLength(Len(bytes)) \o bytes

\* CallOrigin::encode: one-byte discriminant, then the variant's fields
\* (the accounts, signers and signatures of the test chains are u32)
EncodeCallOrigin(origin) ==
    IF origin.kind = "SourceRoot" THEN <<0>>
    ELSE IF origin.kind = "TargetAccount"
         THEN <<1>> \o EncodeU32(origin.id) \o EncodeU32(origin.public)
                  \o EncodeU32(origin.signature)
    ELSE <<2>> \o EncodeU32(origin.id)

\* DispatchFeePayment::encode
EncodeDispatchFeePayment(dispatch_fee_payment) ==
    IF dispatch_fee_payment = "AtSourceChain" THEN <<0>> ELSE <<1>>

\* FromThisChainMessagePayload::encode: the fields in their order
EncodeMessagePayload(payload) ==
    EncodeU32(payload.spec_version) \o EncodeWeight(payload.weight)
        \o EncodeCallOrigin(payload.origin)
        \o EncodeDispatchFeePayment(payload.dispatch_fee_payment)
        \o EncodeBytes(payload.call)

NoInput == [some |-> FALSE, v |-> 0, rest |-> <<>>]

\* the input without its first n bytes
Skip(input, n) == SubSeq(input, n + 1, Len(input))

\* a fixed-width little-endian integer of `width` bytes
DecodeFixed(input, width) ==
    IF Len(input) < width THEN NoInput
    ELSE [some |-> TRUE, v |-> LittleEndian(SubSeq(input, 1, width)), rest |-> Skip(input, width)]

\* CallOrigin::decode
DecodeCallOrigin(input) ==
    IF Len(input) = 0 THEN NoInput
    ELSE IF input[1] = 0
         THEN [some |-> TRUE, rest |-> Tail(input),
               v |-> [kind |-> "SourceRoot", id |-> 0, public |-> 0, signature |-> 0]]
    ELSE IF input[1] = 1
         THEN LET id == DecodeFixed(Tail(input), 4)
                  public == DecodeFixed(id.rest, 4)
                  signature == DecodeFixed(public.rest, 4)
              IN IF id.some /\ public.some /\ signature.some
                 THEN [some |-> TRUE, rest |-> signature.rest,
                       v |-> [kind |-> "TargetAccount", id |-> id.v, public |-> public.v,
                              signature |-> signature.v]]
                 ELSE NoInput
    ELSE IF input[1] = 2
         THEN LET id == DecodeFixed(Tail(input), 4)
              IN IF id.some
                 THEN [some |-> TRUE, rest |-> id.rest,
                       v |-> [kind |-> "SourceAccount", id |-> id.v, public |-> 0,
                              signature |-> 0]]
                 ELSE NoInput
    ELSE NoInput

\* DispatchFeePayment::decode
DecodeDispatchFeePayment(input) ==
    IF Len(input) = 0 \/ input[1] > 1 THEN NoInput
    ELSE [some |-> TRUE, rest |-> Tail(input),
          v |-> IF input[1] = 0 THEN "AtSourceChain" ELSE "AtTargetChain"]

\* the same with the bytes taken as they come, without a length before them
DecodeEncodedMessageCall_without_length(input) ==
    [some |-> TRUE, rest |-> <<>>, v |-> [encoded_call |-> input]]

\* FromBridgedChainEncodedMessageCall::decode: encoded_call (Vec<u8>), then the marker,
\* which takes no bytes
DecodeEncodedMessageCall(input) ==
    LET length == DecodeCompactLength(input)
    IN IF ~length.some \/ Len(length.rest) < length.v THEN NoInput
       ELSE [some |-> TRUE, rest |-> Skip(length.rest, length.v),
             v |-> [encoded_call |-> SubSeq(length.rest, 1, length.v)]]

\* FromBridgedChainMessagePayload::decode: the fields in their order; bytes left over
\* are not looked at
DecodeMessagePayload(input) ==
    LET spec_version == DecodeFixed(input, 4)
        weight == DecodeFixed(spec_version.rest, 8)
        origin == DecodeCallOrigin(weight.rest)
        dispatch_fee_payment == DecodeDispatchFeePayment(origin.rest)
        call == DecodeEncodedMessageCall(dispatch_fee_payment.rest)
    IN IF /\ spec_version.some /\ weight.some /\ origin.some
          /\ dispatch_fee_payment.some /\ call.some
       THEN Some([spec_version |-> spec_version.v, weight |-> weight.v, origin |-> origin.v,
                  dispatch_fee_payment |-> dispatch_fee_payment.v, call |-> call.v])
       ELSE None

\* ThisChainCall: #[codec(index = 42)] Transfer, #[codec(index = 84)] Mint
ThisChainCalls == {"Transfer", "Mint"}

EncodeThisChainCall(call) == IF call = "Transfer" THEN <<42>> ELSE <<84>>

\* From<FromBridgedChainEncodedMessageCall<DecodedCall>> for Result<DecodedCall, ()>
DecodeThisChainCall(call) ==
    IF Len(call.encoded_call) = 0 THEN Err("()")
    ELSE IF call.encoded_call[1] = 42 THEN Ok("Transfer")
    ELSE IF call.encoded_call[1] = 84 THEN Ok("Mint")
    ELSE Err("()")

\* tests::message_from_bridged_chain_is_decoded: encode on the bridged chain, decode on
\* this chain, convert the call
message_from_bridged_chain_is_decoded(payload) ==
    LET message_on_bridged_chain == EncodeMessagePayload(payload)
        message_on_this_chain == DecodeMessagePayload(message_on_bridged_chain)
    IN IF message_on_this_chain.some
       THEN Ok([message_on_this_chain |-> message_on_this_chain.v,
                call |-> DecodeThisChainCall(message_on_this_chain.v.call)])
       ELSE Err("decode")

----------------------------------------------------------------------------
(* primitives/runtime: derive_account_id *)

\* b"pallet-bridge/account-derivation/account"
ACCOUNT_DERIVATION_PREFIX ==
    <<
     112, 97, 108, 108, 101, 116, 45, 98, 114, 105, 100, 103, 101, 47, 97, 99,
     99, 111, 117, 110, 116, 45, 100, 101, 114, 105, 118, 97, 116, 105, 111, 110,
     47, 97, 99, 99, 111, 117, 110, 116>>

\* b"pallet-bridge/account-derivation/root"
ROOT_ACCOUNT_DERIVATION_PREFIX ==
    <<
     112, 97, 108, 108, 101, 116, 45, 98, 114, 105, 100, 103, 101, 47, 97, 99,
     99, 111, 117, 110, 116, 45, 100, 101, 114, 105, 118, 97, 116, 105, 111, 110,
     47, 114, 111, 111, 116>>

\* the Blake2 hash of the bytes, taken to be free of collisions: the hash stands for
\* the bytes it was computed from
blake2_256(data) == [blake2_256_of |-> data]

\* the same with the bridge id left out of the hashed tuple
derive_account_id_without_bridge_id(bridge_id, id) ==
    IF id.kind = "Root"
    THEN blake2_256(EncodeBytes(ROOT_ACCOUNT_DERIVATION_PREFIX))
    ELSE blake2_256(EncodeBytes(ACCOUNT_DERIVATION_PREFIX) \o EncodeU32(id.account))

\* derive_account_id: the tuple (prefix, bridge_id[, id]) is encoded as the prefix with
\* its length, the four bytes of the bridge id, and the encoded account (u32 here)
derive_account_id(bridge_id, id) ==
    IF id.kind = "Root"
    THEN blake2_256(EncodeBytes(ROOT_ACCOUNT_DERIVATION_PREFIX) \o bridge_id)
    ELSE blake2_256(EncodeBytes(ACCOUNT_DERIVATION_PREFIX) \o bridge_id
                        \o EncodeU32(id.account))

----------------------------------------------------------------------------
(* SpecCodec: the payload round trip and two account derivations, applied to  *)
(* drawn inputs                                                               *)

CodecSpecVersions == {0, 1, 70000}
CodecWeights == {0, 100, 300, 16777221}
CodecOrigins ==
    {[kind |-> "SourceRoot", id |-> 0, public |-> 0, signature |-> 0],
     [kind |-> "TargetAccount", id |-> 1, public |-> 2, signature |-> 3],
     [kind |-> "TargetAccount", id |-> 300, public |-> 0, signature |-> 70000],
     [kind |-> "SourceAccount", id |-> 0, public |-> 0, signature |-> 0],
     [kind |-> "SourceAccount", id |-> 258, public |-> 0, signature |-> 0]}
CodecCalls ==
    {EncodeThisChainCall(call) : call \in ThisChainCalls}
        \cup {<<>>, <<1, 2, 3, 4, 5, 6>>, Zeros(63), Zeros(64), Zeros(70)}

CodecPayloads ==
    [spec_version : CodecSpecVersions, weight : CodecWeights, origin : CodecOrigins,
     dispatch_fee_payment : {"AtSourceChain", "AtTargetChain"}, call : CodecCalls]

\* b"roco", b"woco", and two ids that differ in their last byte only
ChainIds == {<<114, 111, 99, 111>>, <<119, 111, 99, 111>>, <<0, 0, 0, 0>>, <<0, 0, 0, 1>>}

SourceAccounts ==
    {[kind |-> "Root", account |-> 0]}
        \cup {[kind |-> "Account", account |-> a] : a \in {0, 1, 256, 16777216}}

DeriveArgs == [bridge_id : ChainIds, id : SourceAccounts]

InitCodec ==
    /\ pc = "call"
    /\ res = NoResult
    /\ lane_outbound_data = DefaultOutboundLaneData
    /\ balances = NoBalances
    /\ \/ op = "message_from_bridged_chain_is_decoded" /\ arg \in [payload : CodecPayloads]
       \/ op = "derive_account_id" /\ arg \in [first : DeriveArgs, second : DeriveArgs]

MessageFromBridgedChainIsDecoded ==
    /\ pc = "call" /\ op = "message_from_bridged_chain_is_decoded"
    /\ res' = message_from_bridged_chain_is_decoded(arg.payload)
    /\ pc' = "done"
    /\ UNCHANGED <<op, arg, lane_outbound_data, balances>>

\* two calls of derive_account_id, one after the other
DeriveAccountIds ==
    /\ pc = "call" /\ op = "derive_account_id"
    /\ res' = Ok(<<derive_account_id(arg.first.bridge_id, arg.first.id),
                   derive_account_id(arg.second.bridge_id, arg.second.id)>>)
    /\ pc' = "done"
    /\ UNCHANGED <<op, arg, lane_outbound_data, balances>>

NextCodec ==
    \/ MessageFromBridgedChainIsDecoded
    \/ DeriveAccountIds

SpecCodec == InitCodec /\ [][NextCodec]_vars

----------------------------------------------------------------------------
(* C23: encoding a source-side FromThisChainMessagePayload and decoding the   *)
(* bytes as the target-side FromBridgedChainMessagePayload gives the same     *)
(* spec_version, weight, origin and dispatch_fee_payment and an encoded call  *)
(* that holds exactly the bytes of the original call; when these bytes are    *)
(* the encoding of a call of this chain, they decode to that call.            *)
C23_PayloadRoundTrip ==
    Returned("message_from_bridged_chain_is_decoded") =>
        /\ res.ok
        /\ res.val.message_on_this_chain.spec_version = arg.payload.spec_version
        /\ res.val.message_on_this_chain.weight = arg.payload.weight
        /\ res.val.message_on_this_chain.origin = arg.payload.origin
        /\ res.val.message_on_this_chain.dispatch_fee_payment = arg.payload.dispatch_fee_payment
        /\ res.val.message_on_this_chain.call = [encoded_call |-> arg.payload.call]
        /\ \A call \in ThisChainCalls :
               arg.payload.call = EncodeThisChainCall(call) => res.val.call = Ok(call)

\* the message of the test: Transfer, paid at the target chain
C23_Witness ==
    /\ Returned("message_from_bridged_chain_is_decoded")
    /\ arg.payload = [spec_version |-> 1, weight |-> 100,
                      origin |-> [kind |-> "SourceRoot", id |-> 0, public |-> 0, signature |-> 0],
                      dispatch_fee_payment |-> "AtTargetChain", call |-> <<42>>]
    /\ res.val.message_on_this_chain.call = [encoded_call |-> <<42>>]
    /\ res.val.call = Ok("Transfer")

(* C24: derive_account_id separates account spaces: the same account under    *)
(* different chain ids, and different accounts under the same chain id, get   *)
(* different derived ids, and the id derived for Root is never the id derived *)
(* for an account (blake2_256 taken free of collisions).                      *)
C24_DerivedIdsAreSeparated ==
    Returned("derive_account_id") =>
        /\ (arg.first.id = arg.second.id /\ arg.first.bridge_id # arg.second.bridge_id) =>
               res.val[1] # res.val[2]
        /\ (arg.first.bridge_id = arg.second.bridge_id /\ arg.first.id # arg.second.id) =>
               res.val[1] # res.val[2]
        /\ (arg.first.id.kind = "Root" /\ arg.second.id.kind = "Account") =>
               res.val[1] # res.val[2]

\* account 1 under b"roco" and under b"woco"
C24_Witness ==
    /\ Returned("derive_account_id")
    /\ arg.first = [bridge_id |-> <<114, 111, 99, 111>>, id |-> [kind |-> "Account", account |-> 1]]
    /\ arg.second = [bridge_id |-> <<119, 111, 99, 111>>, id |-> [kind |-> "Account", account |-> 1]]
    /\ res.val[1] # res.val[2]

----------------------------------------------------------------------------
\* the outcome of building the parser from the header and the storage proof of the call
ArgParserFailure ==
    IF ~ArgHeaderIsFinalized THEN "UnknownHeader"
    ELSE IF arg.proof.storage_proof.root # ImportedHeaders[arg.proof.bridged_header_hash]
         THEN "MalformedProof"
    ELSE ""

(* C26: verify_messages_proof_with_parser checks in a fixed order. A declared *)
(* messages_count that differs from the number of nonces of the proof is      *)
(* rejected first, whatever the header and the storage proof are (the parser  *)
(* is never built); then a failure to build the parser is returned unchanged, *)
(* whatever the messages are; then the first nonce, in ascending order, whose *)
(* message is missing or undecodable decides the error; then the outbound     *)
(* lane state is decoded; the empty-proof check comes last.                   *)
C26_ChecksInFixedOrder ==
    Returned("verify_messages_proof") =>
        IF arg.messages_count # Cardinality(ArgNonces)
        THEN res = Err(MessageProofError_MessagesCountMismatch)
        ELSE IF ArgParserFailure # ""
        THEN res = Err(ArgParserFailure)
        ELSE IF ArgFailingNonces # {}
        THEN res = Err(IF ArgMessageIsMissing(ArgFirstFailingNonce)
                       THEN MessageProofError_MissingRequiredMessage
                       ELSE MessageProofError_FailedToDecodeMessage)
        ELSE IF ArgLaneStateEntry.kind = "value" /\ ~DecodeOutboundLaneData(ArgLaneStateEntry.v).some
        THEN res = Err(MessageProofError_FailedToDecodeOutboundLaneState)
        ELSE IF ArgLaneStateEntry.kind # "value" /\ ArgNonces = {}
        THEN res = Err(MessageProofError_Empty)
        ELSE res.ok

----------------------------------------------------------------------------
(* C27: when several checks of verify_message fail for the same call, the     *)
(* error follows the order lane disabled, too many pending messages, bad      *)
(* origin, fee overflow, too low fee: each error is returned exactly when its *)
(* check fails and every check before it passes.                              *)
C27_ErrorsInFixedOrder ==
    Returned("verify_message") =>
        IF arg.lane # TEST_LANE_ID THEN res = Err(OUTBOUND_LANE_DISABLED)
        ELSE IF ArgPending > MAXIMAL_PENDING_MESSAGES_AT_TEST_LANE
        THEN res = Err(TOO_MANY_PENDING_MESSAGES)
        ELSE IF ~ArgOriginMatches THEN res = Err(BAD_ORIGIN)
        ELSE IF MathOverflows(arg.payload, RELAYER_FEE_PERCENT) THEN res = Err(FEE_OVERFLOW)
        ELSE IF arg.delivery_and_dispatch_fee < MathTotal(arg.payload, RELAYER_FEE_PERCENT)
        THEN res = Err(TOO_LOW_FEE)
        ELSE res = Ok(0)

\* a disabled lane with too many pending messages, a wrong origin and a fee of 1
C27_Witness ==
    /\ Returned("verify_message")
    /\ arg.lane # TEST_LANE_ID
    /\ ArgPending > MAXIMAL_PENDING_MESSAGES_AT_TEST_LANE
    /\ ~ArgOriginMatches
    /\ ~MathOverflows(arg.payload, RELAYER_FEE_PERCENT)
    /\ arg.delivery_and_dispatch_fee = 1
    /\ arg.delivery_and_dispatch_fee < MathTotal(arg.payload, RELAYER_FEE_PERCENT)
    /\ res = Err(OUTBOUND_LANE_DISABLED)

----------------------------------------------------------------------------
(* C28: on success verify_messages_proof returns a map with exactly one       *)
(* entry, keyed by the lane of the proof, whose message list holds exactly    *)
(* one message for each nonce of nonces_start..=nonces_end, in strictly       *)
(* ascending nonce order without gaps or duplicates, each with the key (proof *)
(* lane, nonce) and the data decoded from the value stored for that nonce.    *)
C28_OneMessagePerNonceInOrder ==
    (Returned("verify_messages_proof") /\ res.ok) =>
        /\ DOMAIN res.val = {arg.proof.lane}
        /\ LET messages == res.val[arg.proof.lane].messages
           IN /\ {messages[i].key.nonce : i \in 1..Len(messages)} = ArgNonces
              /\ \A i \in 1..Len(messages) :
                     /\ messages[i].key.lane_id = arg.proof.lane
                     /\ i < Len(messages) => messages[i + 1].key.nonce = messages[i].key.nonce + 1
                     /\ ArgMessageEntry(messages[i].key.nonce).kind = "value"
                     /\ DecodeMessageData(ArgMessageEntry(messages[i].key.nonce).v)
                            = Some(messages[i].data)

\* the messages 1, 2 and 3, in that order
C28_Witness ==
    /\ Returned("verify_messages_proof") /\ res.ok
    /\ arg.proof.nonces_start = 1 /\ arg.proof.nonces_end = 3
    /\ Len(res.val[arg.proof.lane].messages) = 3
    /\ res.val[arg.proof.lane].messages[1].key.nonce = 1
    /\ res.val[arg.proof.lane].messages[3].key.nonce = 3

----------------------------------------------------------------------------
(* C29: for every nonces_start and nonces_end of the nonce type, nonces_end = *)
(* MessageNonce::MAX included, and every messages_count, the number of        *)
(* messages read never exceeds messages_count: a range that holds more nonces *)
(* than messages_count is rejected with the count-mismatch error before any   *)
(* message is read, whatever the header and the storage proof are, and a list *)
(* that is returned is no longer than messages_count.                         *)
C29_NeverReadsMoreThanDeclared ==
    Returned("verify_messages_proof") =>
        /\ Cardinality(ArgNonces) > arg.messages_count =>
               res = Err(MessageProofError_MessagesCountMismatch)
        /\ res.ok => Len(res.val[arg.proof.lane].messages) <= arg.messages_count

\* the whole nonce range, one nonce more than MessageNonce::MAX counts, declared empty
C29_Witness ==
    /\ Returned("verify_messages_proof")
    /\ arg.proof.nonces_start = 0 /\ arg.proof.nonces_end = NonceMax
    /\ arg.messages_count = 0
    /\ res = Err(MessageProofError_MessagesCountMismatch)

----------------------------------------------------------------------------
(* C30: for every messages proof handed to make_messages_delivery_transaction *)
(* the messages_count of the receive_messages_proof call is computed without  *)
(* underflow or overflow, it is the number of nonces of the proof, and the    *)
(* target chain never rejects the call with the count-mismatch error.         *)
C30_DeliveryTransactionPassesCountCheck ==
    Returned("make_messages_delivery_transaction") =>
        /\ res.ok
        /\ res.val.messages_count = Cardinality(ArgNonces)
        /\ res.val.receive_messages_proof # Err(MessageProofError_MessagesCountMismatch)

====
